---- MODULE Spec2Model ----
(***************************************************************************)
(* State-machine model of the live-feed page (src/src/pages/LiveFeed.tsx): *)
(* the module-level loader state, the React component with its three       *)
(* effects, the asynchronous loadModel and startCamera calls, the camera   *)
(* streams and the animation-frame loop.                                   *)
(*                                                                         *)
(* JavaScript runs handlers to completion, so every action below is one    *)
(* handler or one resumption of an async function after an await.  A state *)
(* change that alters an effect's dependency list is committed together    *)
(* with the cleanups and re-runs of those effects.                         *)
(*                                                                         *)
(* Calls that have returned are forgotten: `loads` and `cams` hold the     *)
(* calls in flight.  A call remembers whether the component instance that  *)
(* made it is still on the page (`live`); the state of an instance that    *)
(* was removed is not kept, because React ignores its setState calls and   *)
(* its refs are null.                                                      *)
(*                                                                         *)
(* Further parts stand beside the page and have their own specifications:  *)
(* the camera acquisition of the dashboard's live view                     *)
(* (src/project/src/pages/Dashboard.tsx), the device selection and         *)
(* stopStream of the page taken as functions of their inputs, the count    *)
(* aggregator (src/project/src/context/AttendanceContext.tsx), the         *)
(* backend's mutating routes (src/backend/src/routes), attendance tracking *)
(* (src/project/src/pages/LiveFeed.tsx), the face-recognition model loader *)
(* (src/project/src/services/FaceRecognitionService.ts), apiRequest, and   *)
(* the lists the providers keep in local storage.                          *)
(***************************************************************************)
EXTENDS Integers, Sequences, FiniteSets, TLC

(* ------------------------------ bounds --------------------------------- *)
\* loadModel calls in flight at once
MaxLoads == 2
\* startCamera calls in flight at once
MaxCams == 2
\* camera streams with live tracks at once
MaxOpen == 2
\* pending timers of init() at once
MaxTimers == 2
\* animation-frame ticks delivered in one behaviour
MaxTicks == 3

\* startStream calls of the dashboard in flight at once
MaxStreamCalls == 2
\* getUserMedia requests issued by the dashboard in one behaviour
MaxRequests == 3

\* devices in one answer of enumerateDevices
MaxDevices == 3

\* consecutive calls of stopStream
MaxStops == 3

\* counts reported to the aggregator in one behaviour
MaxReports == 2

\* requests served by the backend in one behaviour
MaxServed == 3

\* attendance sessions, performFaceRecognition calls in flight and firings
\* of the recognition interval in one behaviour
MaxSessions == 2
MaxRecognitions == 2
MaxFires == 3

\* loadModels calls of the face-recognition service in one behaviour
MaxModelCalls == 3

\* apiRequest calls in one behaviour and the largest retries given to one
MaxApiCalls == 2
MaxRetries == 2

\* students, courses and sessions created in one behaviour
MaxItems == 2

LoadSlots == 1..MaxLoads
CamSlots == 1..MaxCams

(* -------------------------- program constants -------------------------- *)
\* line 20: const DETECTION_MODEL: DetectionModelType = 'blazeface'
DETECTION_MODEL == "blazeface"

\* the value null of the module variable `model`
NoModel == [id |-> 0, variant |-> "none"]

VARIABLES
  IS_RASPBERRY_PI,          \* line 11, fixed at start-up
  model,                    \* line 23
  modelType,                \* line 24
  isModelLoading,           \* line 25
  frameProcessingEnabled,   \* line 26, the processing gate (TRUE = clear)
  frameSkipCounter,         \* line 29, kept modulo 2
  held,                     \* capabilities loaded and not released
  mounted,                  \* a component instance is on the page
  isModelReady, isStreaming, isLoadingStream, error, isPaused, lowPowerMode,
  resolution,               \* lines 58-68, state of the mounted instance
  storedLowPower,           \* localStorage item 'low-power-mode'
  srcObject,                \* stream attached to the video element, 0 = null
  playPending,              \* loadedmetadata/canplay not yet delivered
  open,                     \* streams with live tracks
  loads,                    \* the loadModel calls in flight, by slot
  cams,                     \* the startCamera calls in flight, by slot
  initTimers,               \* pending 500 ms timers of init() (line 806)
  lpTimer,                  \* pending 500 ms timer of the low-power effect
  frameScheduled,           \* a requestAnimationFrame callback is pending
  lastProcessTime,          \* line 685
  now,                      \* timestamp of the latest tick, in ms
  ticks,                    \* ticks delivered
  loopCap,                  \* state captured by the processFrame closure
  lastTick,                 \* what the latest tick did
  tickErrors,               \* ticks whose detection raised an error, up to 2
  userStopped,              \* the user's latest camera command was Stop
  dashboard,                \* the live view of Dashboard.tsx and its calls
  selection,                \* a device list and the device chosen from it
  video,                    \* a video element and the stopStream calls on it
  aggregator,               \* the provider of AttendanceContext.tsx
  backend,                  \* the backend's rows and the events it has emitted
  attendance,               \* attendance sessions and the page's tracking of them
  faces,                    \* the face-recognition service and its model loads
  api,                      \* the latest apiRequest call of the api service
  lists                     \* the student, course and session lists and their stored copies

modvars  == <<model, modelType, isModelLoading, frameProcessingEnabled, held>>
compvars == <<isModelReady, isStreaming, isLoadingStream, error, isPaused,
              lowPowerMode, resolution>>
camvars  == <<srcObject, playPending, open, cams>>
loopvars == <<frameScheduled, lastProcessTime, now, ticks, frameSkipCounter,
              loopCap, lastTick, tickErrors>>
pagevars == <<IS_RASPBERRY_PI, modvars, compvars, camvars, loopvars, mounted,
              storedLowPower, loads, initTimers, lpTimer, userStopped>>
\* the state of the other components, which the live-feed page leaves alone
extvars ==
  <<dashboard, selection, video, aggregator, backend, attendance, faces, api, lists>>
vars == <<pagevars, extvars>>
\* what the actions of one of these components leave alone
besideDashboard ==
  <<pagevars, selection, video, aggregator, backend, attendance, faces, api, lists>>
besideSelection ==
  <<pagevars, dashboard, video, aggregator, backend, attendance, faces, api, lists>>
besideVideo ==
  <<pagevars, dashboard, selection, aggregator, backend, attendance, faces, api, lists>>
besideAggregator ==
  <<pagevars, dashboard, selection, video, backend, attendance, faces, api, lists>>
besideBackend ==
  <<pagevars, dashboard, selection, video, aggregator, attendance, faces, api, lists>>
besideAttendance ==
  <<pagevars, dashboard, selection, video, aggregator, backend, faces, api, lists>>
besideFaces ==
  <<pagevars, dashboard, selection, video, aggregator, backend, attendance, api, lists>>
besideApi ==
  <<pagevars, dashboard, selection, video, aggregator, backend, attendance, faces, lists>>
besideLists ==
  <<pagevars, dashboard, selection, video, aggregator, backend, attendance, faces, api>>

(* --------------------------- the model loader --------------------------- *)
\* A loader configured for the object detector: what PrimaryPlan would be
\* with DETECTION_MODEL = 'cocossd'.
PrimaryPlanCocoSsd(pi, mt) ==
  IF pi THEN <<"blazeface_128">>
  ELSE <<"cocossd_lite", "cocossd_mobilenet_v2", "cocossd_default">>

\* The variants loadModel fetches before the emergency fallback, in order;
\* a failure of the last one is thrown to the outer catch (lines 120-220).
PrimaryPlan(pi, mt) ==
  IF pi THEN <<"blazeface_128">>
  ELSE CASE mt = "blazeface" -> <<"blazeface_default">>
         [] mt = "mobilenet" -> <<"mobilenet_v2">>
         [] OTHER -> <<"cocossd_lite", "cocossd_mobilenet_v2", "cocossd_default">>

\* line 261: the emergency fallback, blazeface.load() without options
EmergencyVariant == "blazeface_default"

IdleLoad ==
  [pc |-> "idle", live |-> FALSE, plan |-> <<>>, idx |-> 0, attempts |-> <<>>]

\* lines 83-86: a call past the early return, awaiting the backend set-up
NewLoad ==
  [pc |-> "backend", live |-> TRUE, plan |-> <<>>, idx |-> 0, attempts |-> <<>>]

FreeLoadSlots == {s \in LoadSlots : loads[s].pc = "idle"}
FreeLoadSlot == CHOOSE s \in FreeLoadSlots : \A t \in FreeLoadSlots : s <= t

\* the object a fetch of variant v resolves to: a capability that is none of
\* those loaded and not released
FreshCap(v) ==
  LET used == {c.id : c \in held}
      n == CHOOSE i \in 1..(2 * MaxLoads) :
             i \notin used /\ \A j \in 1..(2 * MaxLoads) : j \notin used => i <= j
  IN [id |-> n, variant |-> v]

\* a model fetch (blazeface.load, mobilenet.load, cocossd.load) is awaited
Fetching(l) == l.pc \in {"primary", "emergency"}

\* line 90: IS_RASPBERRY_PI || navigator.hardwareConcurrency <= 4.  A
\* desktop with at most four cores behaves like one with more cores whose
\* backend set-up succeeds, so it is not a separate case.
CpuBackend == IS_RASPBERRY_PI

(* ---------------------------- the loop effect --------------------------- *)
LoopCapture(s, p, lp, r) ==
  [isStreaming |-> s, isPaused |-> p, lowPowerMode |-> lp, isModelReady |-> r]

\* LoopEffect without the cleanup of lines 788-792: a pending frame of the
\* previous run stays scheduled, with the closure of that run.
LoopEffectNoCleanup(s, p, lp, r) ==
  /\ frameScheduled' = (frameScheduled \/ (~IS_RASPBERRY_PI /\ s))
  /\ lastProcessTime' = 0
  /\ loopCap' = IF ~IS_RASPBERRY_PI /\ s THEN LoopCapture(s, p, lp, r) ELSE loopCap

\* lines 683-793, run when isModelReady, isStreaming, isPaused, resolution or
\* lowPowerMode changed: the cleanup of the previous run cancels the pending
\* frame; the new run starts a loop when streaming, but never on the
\* Raspberry Pi, where the effect returns at line 715.
LoopEffect(s, p, lp, r) ==
  /\ frameScheduled' = (~IS_RASPBERRY_PI /\ s)
  /\ lastProcessTime' = 0
  /\ loopCap' = LoopCapture(s, p, lp, r)

\* setIsModelReady(TRUE) by a loadModel call (lines 250-252, 265-267)
MarkModelReady(l) ==
  IF l.live /\ ~isModelReady
  THEN /\ isModelReady' = TRUE
       /\ LoopEffect(isStreaming, isPaused, lowPowerMode, TRUE)
  ELSE UNCHANGED <<isModelReady, frameScheduled, lastProcessTime, loopCap>>

\* init() resumes after `await loadModel()` and arms its 500 ms timer
\* (lines 802-810); the timer of an instance that is gone does nothing
ArmInitTimer(l) ==
  IF l.live
  THEN /\ initTimers < MaxTimers
       /\ initTimers' = initTimers + 1
  ELSE UNCHANGED initTimers

\* lines 89-118: the backend set-up settles; its errors are caught on the
\* CPU path only.  Then the first fetch is started (lines 120-219).
LoadBackend(s, ok) ==
  LET l == loads[s] IN
  /\ l.pc = "backend"
  /\ IF ok \/ CpuBackend
     THEN LET plan == PrimaryPlan(IS_RASPBERRY_PI, modelType) IN
          /\ loads' = [loads EXCEPT ![s] =
                [l EXCEPT !.pc = "primary", !.plan = plan, !.idx = 1,
                          !.attempts = <<plan[1]>>]]
          /\ modelType' = IF IS_RASPBERRY_PI THEN "blazeface" ELSE modelType
     ELSE /\ loads' = [loads EXCEPT ![s] =
                [l EXCEPT !.pc = "emergency", !.attempts = <<EmergencyVariant>>]]
          /\ UNCHANGED modelType
  /\ UNCHANGED <<extvars, userStopped, IS_RASPBERRY_PI, model, isModelLoading, frameProcessingEnabled,
                 held, compvars, camvars, loopvars, mounted, storedLowPower, initTimers, lpTimer>>

\* lines 126-219: the awaited fetch of the current variant settles
LoadPrimary(s, ok) ==
  LET l == loads[s] IN
  /\ l.pc = "primary"
  /\ IF ok
     THEN LET cap == FreshCap(l.plan[l.idx]) IN
          /\ model' = cap
          /\ held' = held \cup {cap}
          /\ loads' = [loads EXCEPT ![s] = [l EXCEPT !.pc = "warm"]]
     ELSE /\ UNCHANGED <<model, held>>
          /\ loads' = [loads EXCEPT ![s] =
               IF l.idx < Len(l.plan)
               THEN [l EXCEPT !.idx = l.idx + 1,
                              !.attempts = Append(l.attempts, l.plan[l.idx + 1])]
               ELSE [l EXCEPT !.pc = "emergency",
                              !.attempts = Append(l.attempts, EmergencyVariant)]]
  /\ UNCHANGED <<extvars, userStopped, IS_RASPBERRY_PI, modelType, isModelLoading,
                 frameProcessingEnabled, compvars, camvars, loopvars, mounted,
                 storedLowPower, initTimers, lpTimer>>

\* lines 222-254 and 278-280: after `await tf.ready()` the pre-warm runs,
\* the model is marked ready and the call returns the module variable
LoadWarm(s) ==
  LET l == loads[s] IN
  /\ l.pc = "warm"
  /\ MarkModelReady(l)
  /\ loads' = [loads EXCEPT ![s] = IdleLoad]
  /\ isModelLoading' = FALSE
  /\ ArmInitTimer(l)
  /\ UNCHANGED <<extvars, userStopped, IS_RASPBERRY_PI, model, modelType, frameProcessingEnabled,
                 held, isStreaming, isLoadingStream, error, isPaused,
                 lowPowerMode, resolution, camvars, now, ticks,
                 frameSkipCounter, lastTick, tickErrors, mounted, storedLowPower,
                 lpTimer>>

\* LoadEmergency without the finally block of lines 278-280: a failed
\* emergency fetch leaves isModelLoading as it is.
LoadEmergencyNoFinally(s, ok) ==
  LET l == loads[s]
      cap == FreshCap(EmergencyVariant) IN
  /\ l.pc = "emergency"
  /\ IF ok
     THEN /\ model' = cap
          /\ held' = held \cup {cap}
          /\ modelType' = "blazeface"
          /\ MarkModelReady(l)
          /\ UNCHANGED error
     ELSE /\ UNCHANGED <<model, held, modelType, isModelReady, frameScheduled,
                         lastProcessTime, loopCap>>
          /\ error' = IF l.live THEN "ModelLoadFailed" ELSE error
  /\ loads' = [loads EXCEPT ![s] = IdleLoad]
  /\ isModelLoading' = (~ok /\ isModelLoading)
  /\ ArmInitTimer(l)
  /\ UNCHANGED <<extvars, userStopped, IS_RASPBERRY_PI, frameProcessingEnabled, isStreaming,
                 isLoadingStream, isPaused, lowPowerMode, resolution, camvars,
                 now, ticks, frameSkipCounter, lastTick, tickErrors, mounted,
                 storedLowPower, lpTimer>>

\* lines 255-280: the emergency fetch settles
LoadEmergency(s, ok) ==
  LET l == loads[s]
      cap == FreshCap(EmergencyVariant) IN
  /\ l.pc = "emergency"
  /\ IF ok
     THEN /\ model' = cap
          /\ held' = held \cup {cap}
          /\ modelType' = "blazeface"
          /\ MarkModelReady(l)
          /\ UNCHANGED error
     ELSE /\ UNCHANGED <<model, held, modelType, isModelReady, frameScheduled,
                         lastProcessTime, loopCap>>
          /\ error' = IF l.live THEN "ModelLoadFailed" ELSE error
  /\ loads' = [loads EXCEPT ![s] = IdleLoad]
  /\ isModelLoading' = FALSE
  /\ ArmInitTimer(l)
  /\ UNCHANGED <<extvars, userStopped, IS_RASPBERRY_PI, frameProcessingEnabled, isStreaming,
                 isLoadingStream, isPaused, lowPowerMode, resolution, camvars,
                 now, ticks, frameSkipCounter, lastTick, tickErrors, mounted,
                 storedLowPower, lpTimer>>

(* ------------------------ mounting and unmounting ----------------------- *)
\* lines 64-68: the initial value of lowPowerMode
InitialLowPower == IF IS_RASPBERRY_PI THEN TRUE ELSE storedLowPower # "false"

\* The component is rendered: fresh state (lines 58-71); the loop effect and
\* the low-power effect find isStreaming false; the mount effect
\* (lines 796-818) sets isMounted and calls init(), which calls loadModel
\* (lines 79-86).
Mount ==
  /\ ~mounted
  /\ userStopped' = FALSE
  /\ mounted' = TRUE
  /\ isStreaming' = FALSE /\ isLoadingStream' = FALSE
  /\ error' = "none" /\ isPaused' = FALSE /\ resolution' = "0x0"
  /\ lowPowerMode' = InitialLowPower
  /\ isModelReady' = FALSE
  /\ LoopEffect(FALSE, FALSE, InitialLowPower, FALSE)
  /\ IF isModelLoading
     THEN /\ initTimers < MaxTimers
          /\ initTimers' = initTimers + 1
          /\ UNCHANGED <<isModelLoading, loads>>
     ELSE /\ FreeLoadSlots # {}
          /\ loads' = [loads EXCEPT ![FreeLoadSlot] = NewLoad]
          /\ isModelLoading' = TRUE
          /\ UNCHANGED initTimers
  /\ UNCHANGED <<extvars, IS_RASPBERRY_PI, model, modelType, frameProcessingEnabled,
                 held, camvars, now, ticks, frameSkipCounter, lastTick, tickErrors,
                 storedLowPower, lpTimer>>

\* The component is removed from the page: the cleanups of the three effects
\* run (lines 788-792, 819-823, 838-840): the frame is cancelled, stopStream
\* (lines 491-502) finds isMounted false, resetModuleState (lines 32-48)
\* clears the module variables.  The calls in flight go on with their refs
\* null, and the state of the instance is dropped.
\* Whether videoRef.current is still set when the cleanup runs depends on
\* the React release (cleanups of a removed component run before its refs
\* are detached in React 16, after it from React 17 on), and the repository
\* does not fix the release: with the ref detached, stopStream returns at
\* line 492 and the attached stream keeps its tracks.
Unmount(detached) ==
  /\ mounted
  /\ userStopped' = FALSE
  /\ mounted' = FALSE
  /\ frameScheduled' = FALSE
  /\ open' = IF detached THEN open ELSE open \ {srcObject}
  /\ srcObject' = 0
  /\ playPending' = FALSE
  /\ model' = NoModel
  /\ held' = {}
  /\ isModelLoading' = FALSE
  /\ frameProcessingEnabled' = TRUE
  /\ lpTimer' = FALSE
  /\ initTimers' = 0
  /\ loads' = [s \in LoadSlots |-> [loads[s] EXCEPT !.live = FALSE]]
  /\ cams' = [s \in CamSlots |-> [cams[s] EXCEPT !.live = FALSE]]
  /\ isModelReady' = FALSE /\ isStreaming' = FALSE /\ isLoadingStream' = FALSE
  /\ error' = "none" /\ isPaused' = FALSE /\ resolution' = "0x0"
  /\ UNCHANGED <<extvars, IS_RASPBERRY_PI, modelType, lowPowerMode, lastProcessTime,
                 now, ticks, frameSkipCounter, loopCap, lastTick, tickErrors,
                 storedLowPower>>

(* ------------------- effects of a dependency change --------------------- *)
\* startCamera is re-created when isStreaming or lowPowerMode changes
\* (line 441), and it is a dependency of the mount effect (line 824) and of
\* the low-power effect (line 842).  Committing new values s, lp of the two
\* states, with stream src attached and the streams op open, therefore runs:
\*  - the mount effect's cleanup: isMounted = false, stopStream (which then
\*    leaves isStreaming alone) and resetModuleState;
\*  - the mount effect again: isMounted = true and init(), whose loadModel
\*    finds isModelLoading false, sets it and calls setIsModelReady(false);
\*  - the low-power effect: its cleanup clears the timer, its run finds no
\*    stream to stop and arms the timer when s holds;
\*  - the loop effect with the new state.
CommitDeps(s, lp, src, op) ==
  /\ FreeLoadSlots # {}
  /\ isStreaming' = s
  /\ lowPowerMode' = lp
  /\ open' = op \ {src}
  /\ srcObject' = 0
  /\ playPending' = FALSE
  /\ model' = NoModel
  /\ held' = {}
  /\ frameProcessingEnabled' = TRUE
  /\ isModelLoading' = TRUE
  /\ isModelReady' = FALSE
  /\ loads' = [loads EXCEPT ![FreeLoadSlot] = NewLoad]
  /\ lpTimer' = s
  /\ LoopEffect(s, isPaused, lp, FALSE)

(* ------------------------------ the camera ------------------------------ *)
IdleCam == [pc |-> "idle", live |-> FALSE, stream |-> 0, lp |-> FALSE]

FreeCamSlots == {s \in CamSlots : cams[s].pc = "idle"}
FreeCamSlot == CHOOSE s \in FreeCamSlots : \A t \in FreeCamSlots : s <= t

\* the MediaStream object getUserMedia creates next
FreshStream == CHOOSE n \in 1..(MaxOpen + 1) :
                  n \notin open /\ \A m \in 1..(MaxOpen + 1) : m \notin open => n <= m

\* lines 322-326 and 374-389: the dimensions the track reports for the
\* constraints requested under power mode lp
TrackResolution(lp) ==
  IF IS_RASPBERRY_PI THEN "320x240" ELSE IF lp THEN "640x480" ELSE "1280x720"

\* lines 284-302: startCamera up to its first await, called by the mounted
\* instance with lowPowerMode lp in its closure
StartCamera(lp) ==
  /\ FreeCamSlots # {}
  /\ isLoadingStream' = TRUE
  /\ error' = "none"
  /\ open' = open \ {srcObject}
  /\ srcObject' = 0
  /\ playPending' = FALSE
  /\ cams' = [cams EXCEPT ![FreeCamSlot] =
                [pc |-> "enum", live |-> TRUE, stream |-> 0, lp |-> lp]]

\* lines 806-810: a timer of init() fires
InitTimerFire ==
  /\ initTimers > 0
  /\ initTimers' = initTimers - 1
  /\ StartCamera(lowPowerMode)
  /\ UNCHANGED <<extvars, userStopped, IS_RASPBERRY_PI, modvars, isModelReady, isStreaming, isPaused,
                 lowPowerMode, resolution, loopvars, mounted, storedLowPower,
                 loads, lpTimer>>

\* lines 832-836: the timer of the low-power effect fires
LpTimerFire ==
  /\ lpTimer
  /\ lpTimer' = FALSE
  /\ StartCamera(lowPowerMode)
  /\ UNCHANGED <<extvars, userStopped, IS_RASPBERRY_PI, modvars, isModelReady, isStreaming, isPaused,
                 lowPowerMode, resolution, loopvars, mounted, storedLowPower,
                 loads, initTimers>>

\* lines 425-440: the catch and finally blocks of startCamera
CameraFailed(c, name) ==
  /\ error' = IF ~c.live THEN error
              ELSE CASE name = "NotReadableError" -> "CameraBusy"
                     [] name = "NotAllowedError" -> "PermissionDenied"
                     [] OTHER -> "Generic"
  /\ isLoadingStream' = IF c.live THEN FALSE ELSE isLoadingStream

\* line 305: enumerateDevices settles
CamEnumerate(s, ok) ==
  LET c == cams[s] IN
  /\ c.pc = "enum"
  /\ IF ok
     THEN /\ cams' = [cams EXCEPT ![s] = [c EXCEPT !.pc = "gum"]]
          /\ UNCHANGED <<error, isLoadingStream>>
     ELSE /\ cams' = [cams EXCEPT ![s] = IdleCam]
          /\ CameraFailed(c, "Error")
  /\ UNCHANGED <<extvars, userStopped, IS_RASPBERRY_PI, modvars, isModelReady, isStreaming, isPaused,
                 lowPowerMode, resolution, srcObject, playPending, open,
                 loopvars, mounted, storedLowPower, loads, initTimers,
                 lpTimer>>

\* the outcomes of getUserMedia that startCamera tells apart (lines 431-437)
GumOutcomes == {"ok", "NotReadableError", "NotAllowedError", "Error"}

\* lines 341-344: getUserMedia settles with a new stream or an error
CamGetUserMedia(s, out) ==
  LET c == cams[s] IN
  /\ c.pc = "gum"
  /\ IF out = "ok"
     THEN /\ Cardinality(open) < MaxOpen
          /\ open' = open \cup {FreshStream}
          /\ cams' = [cams EXCEPT ![s] =
                        [c EXCEPT !.pc = "apply", !.stream = FreshStream]]
          /\ UNCHANGED <<error, isLoadingStream>>
     ELSE /\ cams' = [cams EXCEPT ![s] = IdleCam]
          /\ CameraFailed(c, out)
          /\ UNCHANGED open
  /\ UNCHANGED <<extvars, userStopped, IS_RASPBERRY_PI, modvars, isModelReady, isStreaming, isPaused,
                 lowPowerMode, resolution, srcObject, playPending, loopvars,
                 mounted, storedLowPower, loads, initTimers, lpTimer>>

\* lines 354-440: applyConstraints settles (its error is caught); the
\* resolution is stored and the stream is attached.  With the component
\* gone videoRef.current is null and line 392 throws into the catch block.
CamAttach(s) ==
  LET c == cams[s]
      res == TrackResolution(c.lp) IN
  /\ c.pc = "apply"
  /\ cams' = [cams EXCEPT ![s] = IdleCam]
  /\ IF c.live
     THEN /\ resolution' = res
          /\ srcObject' = c.stream
          /\ playPending' = TRUE
          /\ isLoadingStream' = FALSE
          /\ IF resolution # res
             THEN LoopEffect(isStreaming, isPaused, lowPowerMode, isModelReady)
             ELSE UNCHANGED <<frameScheduled, lastProcessTime, loopCap>>
     ELSE UNCHANGED <<resolution, srcObject, playPending, isLoadingStream,
                      frameScheduled, lastProcessTime, loopCap>>
  /\ UNCHANGED <<extvars, userStopped, IS_RASPBERRY_PI, modvars, isModelReady, isStreaming, error,
                 isPaused, lowPowerMode, open, now, ticks, frameSkipCounter,
                 lastTick, tickErrors, mounted, storedLowPower, loads,
                 initTimers, lpTimer>>

\* lines 395-423: loadedmetadata (or canplay) is delivered and play()
\* resolves, so setIsStreaming(true) is called
VideoPlays ==
  /\ mounted
  /\ srcObject # 0
  /\ playPending
  /\ IF isStreaming
     THEN /\ playPending' = FALSE
          /\ UNCHANGED <<modvars, isModelReady, isStreaming, lowPowerMode,
                         srcObject, open, loads, lpTimer, frameScheduled,
                         lastProcessTime, loopCap>>
     ELSE /\ CommitDeps(TRUE, lowPowerMode, srcObject, open)
          /\ UNCHANGED modelType
  /\ UNCHANGED <<extvars, userStopped, IS_RASPBERRY_PI, isLoadingStream, error, isPaused, resolution,
                 cams, now, ticks, frameSkipCounter, lastTick, tickErrors, mounted,
                 storedLowPower, initTimers>>

(* ------------------------------ the buttons ----------------------------- *)
\* lines 491-502 and 931: the Stop Camera button calls stopStream
UserStop ==
  /\ mounted
  /\ isStreaming
  /\ ~isLoadingStream
  /\ IF srcObject = 0
     THEN UNCHANGED <<modvars, isModelReady, isStreaming, lowPowerMode,
                      srcObject, playPending, open, loads, lpTimer,
                      frameScheduled, lastProcessTime, loopCap,
                      userStopped>>
     ELSE /\ CommitDeps(FALSE, lowPowerMode, 0, open \ {srcObject})
          /\ userStopped' = TRUE
          /\ UNCHANGED modelType
  /\ UNCHANGED <<extvars, IS_RASPBERRY_PI, isLoadingStream, error, isPaused, resolution,
                 cams, now, ticks, frameSkipCounter, lastTick, tickErrors, mounted,
                 storedLowPower, initTimers>>

\* line 931: the Start Camera button calls startCamera
UserStart ==
  /\ mounted
  /\ userStopped' = FALSE
  /\ ~isStreaming
  /\ ~isLoadingStream
  /\ StartCamera(lowPowerMode)
  /\ UNCHANGED <<extvars, IS_RASPBERRY_PI, modvars, isModelReady, isStreaming, isPaused,
                 lowPowerMode, resolution, loopvars, mounted, storedLowPower,
                 loads, initTimers, lpTimer>>

\* lines 505-511 and 959: the power-mode button
ToggleLowPower ==
  /\ mounted
  /\ userStopped' = FALSE
  /\ storedLowPower' = IF lowPowerMode THEN "false" ELSE "true"
  /\ CommitDeps(isStreaming, ~lowPowerMode, srcObject, open)
  /\ UNCHANGED <<extvars, IS_RASPBERRY_PI, modelType, isLoadingStream, error, isPaused,
                 resolution, cams, now, ticks, frameSkipCounter, lastTick, tickErrors,
                 mounted, initTimers>>

\* lines 949-953: the pause button
TogglePause ==
  /\ mounted
  /\ isStreaming
  /\ ~isLoadingStream
  /\ isPaused' = ~isPaused
  /\ LoopEffect(isStreaming, ~isPaused, lowPowerMode, isModelReady)
  /\ UNCHANGED <<extvars, userStopped, IS_RASPBERRY_PI, modvars, isModelReady, isStreaming,
                 isLoadingStream, error, lowPowerMode, resolution, camvars, now,
                 ticks, frameSkipCounter, lastTick, tickErrors, mounted,
                 storedLowPower, loads, initTimers, lpTimer>>

(* -------------------------- the animation frame ------------------------- *)
\* A detection interval that gives the Raspberry Pi the shortest interval.
DetectionIntervalShortOnPi(pi, lp) ==
  IF pi THEN 1000 ELSE IF lp THEN 2000 ELSE 1000

\* lines 688-689: the detection interval in ms, by device and power mode
DetectionIntervalOf(pi, lp) ==
  IF pi THEN 3000 ELSE IF lp THEN 2000 ELSE 1000

\* line 692: the frame-rate ceiling, by device and power mode
MaxFpsOf(pi, lp) == IF pi THEN 3 ELSE IF lp THEN 10 ELSE 30

\* lines 688-689
DETECTION_INTERVAL(lp) == DetectionIntervalOf(IS_RASPBERRY_PI, lp)

\* line 692
MAX_FPS(lp) == MaxFpsOf(IS_RASPBERRY_PI, lp)

\* lines 531-619: processVideoFrame as called with the closure state cap.
\* It returns early without the refs or the model; otherwise line 549 reads
\* the identifier `canvas`, which is declared nowhere in its scope, and the
\* ReferenceError is caught at line 609.  No path awaits, and none reaches
\* a detection call: blazefaceDetection is called on the Raspberry Pi only
\* (line 586) and regularDetection (lines 676-680) has an empty body.
ProcessVideoFrame(cap) ==
  IF ~mounted THEN "returned"
  ELSE IF model = NoModel \/ ~cap.isModelReady THEN "skipped"
  ELSE "error"

\* time between two animation frames, and from a frame to the next one
\* after the loop was restarted
TickDeltas == {20, 2100}

\* wall-clock time processVideoFrame takes (lines 752, 763)
Durations == {100, 600}

Bump(n) == IF n < 2 THEN n + 1 ELSE n

\* Tick without lines 757-760 and 777: the gate set at line 749 is not
\* cleared after the attempt.
TickGateNotCleared(d, dur) ==
  LET ts == now + d
      cap == loopCap
      since == ts - lastProcessTime
      proceed == mounted /\ ~(since * MAX_FPS(cap.lowPowerMode) < 1000)
      render == proceed /\ cap.isStreaming /\ ~cap.isPaused
      cnt == IF render THEN (frameSkipCounter + 1) % 2 ELSE frameSkipCounter
      videoOk == srcObject # 0 /\ ~playPending
      detect == /\ proceed
                /\ since > DETECTION_INTERVAL(cap.lowPowerMode)
                /\ cap.isModelReady
                /\ ~cap.isPaused
                /\ videoOk
                /\ frameProcessingEnabled
      outcome == IF detect THEN ProcessVideoFrame(cap) ELSE "none"
      downgrade == detect /\ dur > 500 /\ ~cap.lowPowerMode /\ IS_RASPBERRY_PI
      did == [rendered |-> render /\ (~cap.lowPowerMode \/ cnt = 0),
              attempted |-> detect, outcome |-> outcome, reported |-> FALSE]
  IN
  /\ frameScheduled
  /\ ticks < MaxTicks
  /\ now' = ts
  /\ ticks' = ticks + 1
  /\ frameSkipCounter' = cnt
  /\ lastTick' = did
  /\ tickErrors' = IF outcome = "error" THEN Bump(tickErrors) ELSE tickErrors
  /\ IF downgrade
     THEN /\ CommitDeps(isStreaming, TRUE, srcObject, open)
          /\ UNCHANGED modelType
     ELSE /\ frameScheduled' = TRUE
          /\ frameProcessingEnabled' = (frameProcessingEnabled /\ ~detect)
          /\ lastProcessTime' = IF detect THEN ts ELSE lastProcessTime
          /\ UNCHANGED <<model, modelType, isModelLoading, held, isModelReady,
                         isStreaming, lowPowerMode, srcObject, playPending,
                         open, loads, lpTimer, loopCap>>
  /\ UNCHANGED <<extvars, userStopped, IS_RASPBERRY_PI, isLoadingStream, error, isPaused, resolution,
                 cams, mounted, storedLowPower, initTimers>>

\* Tick with the error of processVideoFrame escaping to the catch block of
\* processFrame (lines 775-779), which leaves lastProcessTime alone.
TickErrorEscapes(d, dur) ==
  LET ts == now + d
      cap == loopCap
      since == ts - lastProcessTime
      proceed == mounted /\ ~(since * MAX_FPS(cap.lowPowerMode) < 1000)
      render == proceed /\ cap.isStreaming /\ ~cap.isPaused
      cnt == IF render THEN (frameSkipCounter + 1) % 2 ELSE frameSkipCounter
      videoOk == srcObject # 0 /\ ~playPending
      detect == /\ proceed
                /\ since > DETECTION_INTERVAL(cap.lowPowerMode)
                /\ cap.isModelReady
                /\ ~cap.isPaused
                /\ videoOk
                /\ frameProcessingEnabled
      outcome == IF detect THEN ProcessVideoFrame(cap) ELSE "none"
      downgrade == detect /\ dur > 500 /\ ~cap.lowPowerMode /\ IS_RASPBERRY_PI
      did == [rendered |-> render /\ (~cap.lowPowerMode \/ cnt = 0),
              attempted |-> detect, outcome |-> outcome, reported |-> FALSE]
  IN
  /\ frameScheduled
  /\ ticks < MaxTicks
  /\ now' = ts
  /\ ticks' = ticks + 1
  /\ frameSkipCounter' = cnt
  /\ lastTick' = did
  /\ tickErrors' = IF outcome = "error" THEN Bump(tickErrors) ELSE tickErrors
  /\ IF downgrade
     THEN /\ CommitDeps(isStreaming, TRUE, srcObject, open)
          /\ UNCHANGED modelType
     ELSE /\ frameScheduled' = TRUE
          /\ frameProcessingEnabled' = TRUE
          /\ lastProcessTime' = IF detect /\ outcome # "error" THEN ts
                              ELSE lastProcessTime
          /\ UNCHANGED <<model, modelType, isModelLoading, held, isModelReady,
                         isStreaming, lowPowerMode, srcObject, playPending,
                         open, loads, lpTimer, loopCap>>
  /\ UNCHANGED <<extvars, userStopped, IS_RASPBERRY_PI, isLoadingStream, error, isPaused, resolution,
                 cams, mounted, storedLowPower, initTimers>>

\* lines 718-780: one animation frame.  processVideoFrame never awaits, so
\* the code after `await processVideoFrame()` runs in the microtask
\* checkpoint of the same callback, before any other handler.
Tick(d, dur) ==
  LET ts == now + d
      cap == loopCap
      since == ts - lastProcessTime
      proceed == mounted /\ ~(since * MAX_FPS(cap.lowPowerMode) < 1000)
      render == proceed /\ cap.isStreaming /\ ~cap.isPaused
      cnt == IF render THEN (frameSkipCounter + 1) % 2 ELSE frameSkipCounter
      videoOk == srcObject # 0 /\ ~playPending
      detect == /\ proceed
                /\ since > DETECTION_INTERVAL(cap.lowPowerMode)
                /\ cap.isModelReady
                /\ ~cap.isPaused
                /\ videoOk
                /\ frameProcessingEnabled
      outcome == IF detect THEN ProcessVideoFrame(cap) ELSE "none"
      downgrade == detect /\ dur > 500 /\ ~cap.lowPowerMode /\ IS_RASPBERRY_PI
      did == [rendered |-> render /\ (~cap.lowPowerMode \/ cnt = 0),
              attempted |-> detect, outcome |-> outcome, reported |-> FALSE]
  IN
  /\ frameScheduled
  /\ ticks < MaxTicks
  /\ now' = ts
  /\ ticks' = ticks + 1
  /\ frameSkipCounter' = cnt
  /\ lastTick' = did
  /\ tickErrors' = IF outcome = "error" THEN Bump(tickErrors) ELSE tickErrors
  /\ IF downgrade
     THEN /\ CommitDeps(isStreaming, TRUE, srcObject, open)
          /\ UNCHANGED modelType
     ELSE /\ frameScheduled' = TRUE
          /\ frameProcessingEnabled' = TRUE
          /\ lastProcessTime' = IF detect THEN ts ELSE lastProcessTime
          /\ UNCHANGED <<model, modelType, isModelLoading, held, isModelReady,
                         isStreaming, lowPowerMode, srcObject, playPending,
                         open, loads, lpTimer, loopCap>>
  /\ UNCHANGED <<extvars, userStopped, IS_RASPBERRY_PI, isLoadingStream, error, isPaused, resolution,
                 cams, mounted, storedLowPower, initTimers>>

(* ------------- the dashboard's live view (Dashboard.tsx) --------------- *)
\* The second component of src/project/src/pages/Dashboard.tsx acquires the
\* camera in startStream (lines 317-426).  The model follows a call from its
\* start to the attachment of the stream or to its failure; the media
\* events of the video element that follow an attachment are not modelled.
\* `dashboard` holds the component (fields named as in the source), the
\* startStream calls in flight and the getUserMedia requests issued:
\*   "racing"   the request and its 10 s timer are both pending (line 362)
\*   "timedOut" the timer settled the race, the request is still pending
\*   "late"     the request was fulfilled after its race had timed out
\*   "done"     the request settled the race
IdleStream == [pc |-> "idle", req |-> 0, live |-> FALSE]

DashSlots == 1..MaxStreamCalls
Requests == 1..MaxRequests

IdleDashboard ==
  [onPage |-> FALSE, isLoadingStream |-> FALSE, error |-> "none",
   srcObject |-> 0, open |-> {}, issued |-> 0,
   requests |-> [r \in Requests |-> "unused"],
   calls |-> [s \in DashSlots |-> IdleStream]]

FreeDashSlots == {s \in DashSlots : dashboard.calls[s].pc = "idle"}

\* lines 469-480: stopStream on the record d; `attached` is FALSE when
\* videoRef.current is null.
DashStopStream(d, attached) ==
  IF attached /\ d.srcObject # 0
  THEN [d EXCEPT !.open = @ \ {d.srcObject}, !.srcObject = 0]
  ELSE d

\* lines 317-351: startStream up to its first await, in slot s.
StartStream(d, s) ==
  [d EXCEPT !.isLoadingStream = TRUE,
            !.error = "none",
            !.open = @ \ {d.srcObject},
            !.srcObject = 0,
            !.calls[s] = [pc |-> "devices", req |-> 0, live |-> TRUE]]

\* lines 746-751: the component is rendered and its mount effect runs.
DashMount ==
  /\ ~dashboard.onPage
  /\ FreeDashSlots # {}
  /\ dashboard' = StartStream([dashboard EXCEPT !.onPage = TRUE],
                              CHOOSE s \in FreeDashSlots : TRUE)
  /\ UNCHANGED besideDashboard

\* lines 752-755: the component is removed; the cleanup clears isMounted and
\* calls stopStream, which finds the ref set or already detached depending
\* on the React release.  The state of the removed instance is dropped.
DashUnmount(detached) ==
  /\ dashboard.onPage
  /\ dashboard' =
       [DashStopStream(dashboard, ~detached) EXCEPT
          !.onPage = FALSE, !.isLoadingStream = FALSE, !.error = "none",
          !.srcObject = 0,
          !.calls = [s \in DashSlots |-> [@[s] EXCEPT !.live = FALSE]]]
  /\ UNCHANGED besideDashboard

\* lines 746-756 with line 426: a change of lowPowerMode or isModelReady
\* gives startStream a new identity, so the mount effect is cleaned up
\* (stopStream) and run again (startStream) on the same instance.
DashDepsChange ==
  /\ dashboard.onPage
  /\ FreeDashSlots # {}
  /\ dashboard' = StartStream(DashStopStream(dashboard, TRUE),
                              CHOOSE s \in FreeDashSlots : TRUE)
  /\ UNCHANGED besideDashboard

\* line 841 with line 845: the start button; isStreaming is FALSE before
\* the first media event, so the button calls startStream.
DashButton ==
  /\ dashboard.onPage
  /\ ~dashboard.isLoadingStream
  /\ FreeDashSlots # {}
  /\ dashboard' = StartStream(dashboard, CHOOSE s \in FreeDashSlots : TRUE)
  /\ UNCHANGED besideDashboard

\* lines 421-425: the finally block of the call in slot s.
DashFinally(d, s) ==
  [d EXCEPT !.isLoadingStream = IF d.calls[s].live THEN FALSE ELSE @,
            !.calls[s] = IdleStream]

\* lines 351-362: getVideoDevices has returned (it catches its own errors);
\* an unmounted call returns, a mounted one requests the camera and starts
\* the 10 s timer.
DashDevices(s) ==
  LET c == dashboard.calls[s]
      r == dashboard.issued + 1
  IN /\ c.pc = "devices"
     /\ IF ~c.live
        THEN dashboard' = DashFinally(dashboard, s)
        ELSE /\ r \in Requests
             /\ dashboard' = [dashboard EXCEPT !.issued = r,
                                               !.requests[r] = "racing",
                                               !.calls[s].pc = "race",
                                               !.calls[s].req = r]
     /\ UNCHANGED besideDashboard

\* lines 415-420: the catch block; a mounted call reports the failure and
\* awaits getVideoDevices again.
DashCatch(d, s) ==
  IF d.calls[s].live
  THEN [d EXCEPT !.error = "FailedToAccessCamera", !.calls[s].pc = "catch"]
  ELSE DashFinally(d, s)

\* lines 362-368, 410-413: the request is fulfilled before the timer fires.
\* The stream is attached if the component is still mounted, and dropped
\* with its tracks live otherwise (line 365).
DashGumResolves(s) ==
  LET c == dashboard.calls[s]
      d == [dashboard EXCEPT !.open = @ \cup {c.req},
                             !.requests[c.req] = "done"]
  IN /\ c.pc = "race"
     /\ dashboard.requests[c.req] = "racing"
     /\ dashboard' =
          DashFinally(IF c.live THEN [d EXCEPT !.srcObject = c.req] ELSE d, s)
     /\ UNCHANGED besideDashboard

\* line 362: the request is rejected before the timer fires.
DashGumRejects(s) ==
  LET c == dashboard.calls[s]
  IN /\ c.pc = "race"
     /\ dashboard.requests[c.req] = "racing"
     /\ dashboard' =
          DashCatch([dashboard EXCEPT !.requests[c.req] = "done"], s)
     /\ UNCHANGED besideDashboard

\* lines 358-362: the 10 s timer fires first and rejects the race; the
\* request itself stays pending.
DashTimeout(s) ==
  LET c == dashboard.calls[s]
  IN /\ c.pc = "race"
     /\ dashboard.requests[c.req] = "racing"
     /\ dashboard' =
          DashCatch([dashboard EXCEPT !.requests[c.req] = "timedOut"], s)
     /\ UNCHANGED besideDashboard

\* lines 419-425: getVideoDevices has returned in the catch block.
DashCatchDone(s) ==
  /\ dashboard.calls[s].pc = "catch"
  /\ dashboard' = DashFinally(dashboard, s)
  /\ UNCHANGED besideDashboard

\* line 357: the browser settles a request whose race has timed out.  The
\* race has dropped the promise (line 362), so a stream delivered now is
\* referenced nowhere and its tracks stay live.
DashLateSettle(r, granted) ==
  /\ dashboard.requests[r] = "timedOut"
  /\ dashboard' =
       IF granted
       THEN [dashboard EXCEPT !.open = @ \cup {r}, !.requests[r] = "late"]
       ELSE [dashboard EXCEPT !.requests[r] = "done"]
  /\ UNCHANGED besideDashboard

(* ------------- device selection in startCamera (lines 304-344) ---------- *)
\* What startCamera does between the answer of enumerateDevices and its
\* call of getUserMedia, as a function of the device list.  A device is a
\* record [kind, label]; its position in the list stands for its deviceId.
\* `selection` holds one device list and what startCamera made of it.
DeviceKinds == {"videoinput", "audioinput"}
DeviceLabels ==
  {"", "Logitech C920", "FaceTime HD Camera (Built-in)", "Internal Webcam"}
Devices == [kind : DeviceKinds, label : DeviceLabels]

\* the device lists of up to MaxDevices devices
DeviceLists == UNION {[1..n -> Devices] : n \in 0..MaxDevices}

\* line 312: String.prototype.toLowerCase on the labels above
ToLowerCase(label) ==
  CASE label = "Logitech C920" -> "logitech c920"
    [] label = "FaceTime HD Camera (Built-in)" -> "facetime hd camera (built-in)"
    [] label = "Internal Webcam" -> "internal webcam"
    [] OTHER -> label

\* lines 314-316: String.prototype.includes on the lower-cased labels
Includes(label, word) ==
  <<label, word>> \in {<<"facetime hd camera (built-in)", "built-in">>,
                       <<"facetime hd camera (built-in)", "facetime">>,
                       <<"internal webcam", "internal">>}

\* the positions of the list, on which Array.prototype.filter is applied
Positions(devs) == [i \in 1..Len(devs) |-> i]

\* line 306
IsVideoInput(device) == device.kind = "videoinput"
VideoDevices(devs) ==
  SelectSeq(Positions(devs), LAMBDA i : IsVideoInput(devs[i]))

\* lines 311-317; an empty label is falsy
IsExternalWebcam(device) ==
  LET label == ToLowerCase(device.label)
  IN /\ IsVideoInput(device)
     /\ label # ""
     /\ ~Includes(label, "built-in")
     /\ ~Includes(label, "facetime")
     /\ ~Includes(label, "internal")
ExternalWebcams(devs) ==
  SelectSeq(Positions(devs), LAMBDA i : IsExternalWebcam(devs[i]))

\* a selection that ignores the labels
FirstVideoDevice(devs) ==
  IF Len(VideoDevices(devs)) > 0 THEN VideoDevices(devs)[1] ELSE 0

\* lines 329-336: the deviceId constraint, 0 when none is set
PreferredDeviceId(devs) ==
  IF Len(ExternalWebcams(devs)) > 0 THEN ExternalWebcams(devs)[1]
  ELSE IF Len(VideoDevices(devs)) > 0 THEN VideoDevices(devs)[1]
  ELSE 0

IdleSelection == [devices |-> <<>>, pc |-> "idle", deviceId |-> 0]

\* lines 306-344: the device list has arrived; startCamera builds the
\* constraints and calls getUserMedia with them.
SelectAndRequest ==
  /\ selection.pc = "enumerated"
  /\ selection' = [selection EXCEPT
                     !.pc = "requested",
                     !.deviceId = PreferredDeviceId(selection.devices)]
  /\ UNCHANGED besideSelection

(* ---------------------- stopStream (lines 491-502) ---------------------- *)
\* stopStream as a function of what it reads and writes: the video element
\* behind videoRef (`attached` is FALSE when videoRef.current is null), the
\* stream attached to it (0 = null), the streams whose tracks are live, the
\* isMounted ref and the isStreaming state.
StreamIds == 1..MaxOpen
VideoStates ==
  [attached : BOOLEAN, srcObject : {0} \cup StreamIds,
   live : SUBSET StreamIds, isMounted : BOOLEAN, isStreaming : BOOLEAN]

\* stopStream without the guard of line 492
StopStreamUnguarded(v) ==
  [v EXCEPT !.live = @ \ {v.srcObject},
            !.srcObject = 0,
            !.isStreaming = IF v.isMounted THEN FALSE ELSE @]

StopStream(v) ==
  IF ~v.attached \/ v.srcObject = 0
  THEN v
  ELSE [v EXCEPT !.live = @ \ {v.srcObject},
                 !.srcObject = 0,
                 !.isStreaming = IF v.isMounted THEN FALSE ELSE @]

IdleVideo ==
  LET v == [attached |-> FALSE, srcObject |-> 0, live |-> {},
            isMounted |-> FALSE, isStreaming |-> FALSE]
  IN [first |-> v, before |-> v, el |-> v, calls |-> 0]

\* one call of stopStream; `before` keeps what the call found
StopStreamCall ==
  /\ video.calls < MaxStops
  /\ video' = [video EXCEPT !.before = video.el,
                            !.el = StopStream(video.el),
                            !.calls = @ + 1]
  /\ UNCHANGED besideVideo

(* ------------ the count aggregator (AttendanceContext.tsx) ------------- *)
\* The provider of src/project/src/context/AttendanceContext.tsx, lines
\* 287-857, after its initial load: the reducer state, previousCount, the
\* setCount call in flight, the socket and the events the backend has
\* emitted on it, the counts reported to this provider (`reports`) and to
\* any provider (`reported`), and the items 'surveillance-logs' and
\* 'entry-exit-data' of localStorage.  The calls of setCount are taken one after the other,
\* each from a render that has seen the previous one; a call keeps the logs
\* and the entry/exit data of that render (`logs`, `data`).  An element of
\* the logs is a log entry (kind "entry") or a bare count (kind "number");
\* timestamps are left out, and every entry is of the active location.
Counts == {0, 5, 46, 51}
Capacities == {5, 50}

Abs(x) == IF x < 0 THEN -x ELSE x
Max(x, y) == IF x > y THEN x ELSE y

\* lines 395-424: getStatus for the capacity configured for the active
\* location; `count > capacity * 0.9` is 10 * count > 9 * capacity.
GetStatus(count, configured) ==
  LET capacity == IF configured = 0 THEN 50 ELSE configured
  IN IF count = 0
     THEN [status |-> "warning", message |-> "No individuals detected"]
     ELSE IF 10 * count > 9 * capacity
     THEN [status |-> "warning", message |-> "Near capacity"]
     ELSE IF count > capacity
     THEN [status |-> "error", message |-> "Over capacity"]
     ELSE [status |-> "active", message |-> "Normal operation"]

\* lines 326-330: the reducer's ADD_ENTRY_EXIT
AddEntryExit(data, record) ==
  <<record>> \o SubSeq(data, 1, IF Len(data) < 999 THEN Len(data) ELSE 999)

\* lines 429-435: entries minus exits over the records, newest first
RECURSIVE Occupancy(_)
Occupancy(data) ==
  IF data = <<>> THEN 0
  ELSE (IF Head(data).type = "entry" THEN Head(data).count
        ELSE -Head(data).count) + Occupancy(Tail(data))

NoRecord == [type |-> "none", count |-> 0, currentOccupancy |-> 0]
NoCall ==
  [pc |-> "idle", newCount |-> 0, online |-> FALSE, record |-> NoRecord,
   logs |-> <<>>, data |-> <<>>]
NoLog ==
  [kind |-> "none", count |-> 0,
   status |-> [status |-> "none", message |-> "none"]]

\* Array.prototype.slice(0, n)
Slice(s, n) == SubSeq(s, 1, IF Len(s) < n THEN Len(s) ELSE n)

\* a count as an element of the logs
NumberInLogs(count) == [NoLog EXCEPT !.kind = "number", !.count = count]

\* lines 316-359: the reducer on the logs; ADD_LOG has no case and falls to
\* the default, which returns the state as it is.
CountReducer(logs, type, payload) ==
  CASE type = "SET_COUNT" -> <<NumberInLogs(payload)>> \o Slice(logs, 499)
    [] type = "SET_LOGS" -> payload
    [] type = "CLEAR_LOGS" -> <<>>
    [] OTHER -> logs

IdleAggregator ==
  [count |-> 0, previousCount |-> 0, entryExitData |-> <<>>,
   capacity |-> 50, isOnline |-> TRUE, connected |-> FALSE,
   call |-> NoCall, emitted |-> <<>>,
   reports |-> <<>>, reported |-> 0, newLog |-> NoLog,
   logs |-> <<>>, storedLogs |-> <<>>, storedEntryExit |-> <<>>]

\* lines 698-733: setCount after the entry/exit detection, on the record a:
\* previousCount and the log entry with its status; online (as the render
\* of the call saw it) the count is posted, offline the logs are stored.
AfterDetection(a) ==
  LET n == a.call.newCount
      newLog == [kind |-> "entry", count |-> n,
                 status |-> GetStatus(n, a.capacity)]
      b == [a EXCEPT !.previousCount = n,
                     !.newLog = newLog,
                     !.logs = CountReducer(@, "ADD_LOG", newLog)]
  IN IF a.call.online
     THEN [b EXCEPT !.call.pc = "addCount", !.call.record = NoRecord]
     ELSE [b EXCEPT !.storedLogs = <<newLog>> \o Slice(a.call.logs, 499),
                    !.call = NoCall]

\* lines 437-445: the record of recordEntryExit(type, count)
EntryExitRecord(a, type, count) ==
  [type |-> type, count |-> count,
   currentOccupancy |->
     Max(0, Occupancy(a.entryExitData)
              + (IF type = "entry" THEN count ELSE -count))]

\* lines 684-696 with 427-460: setCount(newCount) up to its first await
SetCount(newCount) ==
  LET a == aggregator
      delta == newCount - a.previousCount
      type == IF delta > 0 THEN "entry" ELSE "exit"
      record == EntryExitRecord(a, type, Abs(delta))
      b == [a EXCEPT !.count = newCount,
                     !.logs = CountReducer(@, "SET_COUNT", newCount),
                     !.reports = Append(@, newCount),
                     !.reported = @ + 1,
                     !.call = [pc |-> "detect", newCount |-> newCount,
                               online |-> a.isOnline, record |-> NoRecord,
                               logs |-> a.logs, data |-> a.entryExitData]]
      c == [b EXCEPT !.entryExitData = AddEntryExit(@, record),
                     !.call.record = record]
  IN /\ a.call.pc = "idle"
     /\ a.reported < MaxReports
     /\ aggregator' =
          IF Abs(delta) > 1
          THEN IF a.isOnline
               THEN [c EXCEPT !.call.pc = "recordEntryExit"]
               ELSE AfterDetection(
                      [c EXCEPT !.storedEntryExit =
                                   <<record>> \o Slice(a.entryExitData, 999)])
          ELSE AfterDetection(b)
     /\ UNCHANGED besideAggregator

\* lines 450-468 with the backend's route (unnamed/part_013, lines 242-274):
\* the POST of recordEntryExit is answered.  On success the backend has
\* stored the record and emitted 'entry_exit_recorded' to every connected
\* socket, the sender's included; on failure the provider goes offline and
\* stores the record in front of the data its render had.
PostEntryExit(ok) ==
  LET a == aggregator
      record == a.call.record
  IN /\ a.call.pc = "recordEntryExit"
     /\ aggregator' =
          IF ok
          THEN AfterDetection(
                 [a EXCEPT !.emitted = IF a.connected THEN Append(@, record)
                                       ELSE @])
          ELSE AfterDetection(
                 [a EXCEPT !.isOnline = FALSE,
                           !.storedEntryExit =
                              <<record>> \o Slice(a.call.data, 999)])
     /\ UNCHANGED besideAggregator

\* lines 712-733: the POST of addCount is answered; on failure the provider
\* goes offline and stores the log entry in front of the logs its render had
PostCount(ok) ==
  /\ aggregator.call.pc = "addCount"
  /\ aggregator' =
       IF ok THEN [aggregator EXCEPT !.call = NoCall]
       ELSE [aggregator EXCEPT
               !.call = NoCall,
               !.isOnline = FALSE,
               !.storedLogs = <<aggregator.newLog>>
                                \o Slice(aggregator.call.logs, 499)]
  /\ UNCHANGED besideAggregator

\* lines 580-589: the socket delivers 'entry_exit_recorded'
EntryExitRecorded ==
  /\ aggregator.emitted # <<>>
  /\ aggregator' = [aggregator EXCEPT
                      !.emitted = Tail(@),
                      !.entryExitData =
                         AddEntryExit(@, Head(aggregator.emitted))]
  /\ UNCHANGED besideAggregator

\* lines 556-564: the socket connects
SocketConnect ==
  /\ ~aggregator.connected
  /\ aggregator' = [aggregator EXCEPT !.connected = TRUE, !.isOnline = TRUE]
  /\ UNCHANGED besideAggregator

\* lines 619-629: the socket disconnects; events not yet delivered are lost
SocketDisconnect ==
  /\ aggregator.connected
  /\ aggregator' = [aggregator EXCEPT !.connected = FALSE,
                                      !.isOnline = FALSE,
                                      !.emitted = <<>>]
  /\ UNCHANGED besideAggregator

\* lines 381-392, 472-525: the page is reloaded while the backend cannot be
\* reached: a new provider starts from initialState, refreshData fails, the
\* provider goes offline and takes the logs and the entry/exit data from
\* localStorage.
ReloadOffline ==
  /\ aggregator.call.pc = "idle"
  /\ aggregator' =
       [IdleAggregator EXCEPT
          !.capacity = aggregator.capacity,
          !.isOnline = FALSE,
          !.reported = aggregator.reported,
          !.logs = CountReducer(@, "SET_LOGS", aggregator.storedLogs),
          !.entryExitData = aggregator.storedEntryExit,
          !.storedLogs = aggregator.storedLogs,
          !.storedEntryExit = aggregator.storedEntryExit]
  /\ UNCHANGED besideAggregator

(* ----------------- the backend's mutating routes ----------------------- *)
\* The routes of src/backend/src/routes/locations.js, routes/config.js and
\* routes/counts.js (src/unnamed/part_013, from line 88 on) that write to
\* the database.  `backend` holds the rows (a location row by its capacity,
\* 0 when there is none; the rows of counts and entry_exit by their number
\* per location; a config row by its value), the events handed to io.emit
\* in order, the route and status of the latest response and the number of
\* requests served.  A request body is given by the fields it defines.
LocationIds == {"default", "hall"}
ConfigKeys == {"threshold"}
ConfigValues == {"5"}
NoRow == "none"

IdleBackend ==
  [locations |-> [id \in LocationIds |-> IF id = "default" THEN 50 ELSE 0],
   counts |-> [id \in LocationIds |-> 0],
   entryExit |-> [id \in LocationIds |-> 0],
   config |-> [key \in ConfigKeys |-> NoRow],
   emitted |-> <<>>,
   last |-> [route |-> "none", status |-> 0],
   served |-> 0]

\* the response is sent: res.status(status)
Respond(b, route, status) ==
  [b EXCEPT !.last = [route |-> route, status |-> status],
            !.served = @ + 1]

\* io.emit(name, ...) about the row `subject`
Emit(b, name, subject) ==
  [b EXCEPT !.emitted = Append(@, [name |-> name, subject |-> subject])]

\* part_013 lines 151-186: POST /api/counts/:locationId
CountsPost(locationId, hasCount, hasStatus) ==
  LET route == "POST /counts/:locationId" IN
  /\ backend.served < MaxServed
  /\ backend' =
       IF ~hasCount \/ ~hasStatus THEN Respond(backend, route, 400)
       ELSE IF backend.locations[locationId] = 0
       THEN Respond(backend, route, 404)
       ELSE Respond(Emit([backend EXCEPT !.counts[locationId] = @ + 1],
                         "count_updated", locationId), route, 201)
  /\ UNCHANGED besideBackend

\* part_013 lines 242-279: POST /api/counts/:locationId/entry-exit
EntryExitPost(locationId, type, hasOccupancy) ==
  LET route == "POST /counts/:locationId/entry-exit" IN
  /\ backend.served < MaxServed
  /\ backend' =
       IF type = "" \/ ~hasOccupancy THEN Respond(backend, route, 400)
       ELSE IF type # "entry" /\ type # "exit"
       THEN Respond(backend, route, 400)
       ELSE IF backend.locations[locationId] = 0
       THEN Respond(backend, route, 404)
       ELSE Respond(Emit([backend EXCEPT !.entryExit[locationId] = @ + 1],
                         "entry_exit_recorded", locationId), route, 201)
  /\ UNCHANGED besideBackend

\* locations.js lines 36-62: POST /api/locations with an id in the body; the
\* INSERT of an id that has a row throws and the catch block answers 500.
LocationsPost(id, hasName, capacity) ==
  LET route == "POST /locations" IN
  /\ backend.served < MaxServed
  /\ backend' =
       IF ~hasName \/ capacity = 0 THEN Respond(backend, route, 400)
       ELSE IF backend.locations[id] # 0 THEN Respond(backend, route, 500)
       ELSE Respond(Emit([backend EXCEPT !.locations[id] = capacity],
                         "location:created", id), route, 201)
  /\ UNCHANGED besideBackend

\* locations.js lines 65-101: PUT /api/locations/:id
LocationsPut(id, capacity) ==
  LET route == "PUT /locations/:id" IN
  /\ backend.served < MaxServed
  /\ backend' =
       IF backend.locations[id] = 0 THEN Respond(backend, route, 404)
       ELSE Respond(Emit([backend EXCEPT
                            !.locations[id] = IF capacity = 0 THEN @
                                              ELSE capacity],
                         "location:updated", id), route, 200)
  /\ UNCHANGED besideBackend

\* locations.js lines 104-125 with database.js lines 63, 76: DELETE
\* /api/locations/:id; the rows that refer to the location go with it.
LocationsDelete(id) ==
  LET route == "DELETE /locations/:id" IN
  /\ backend.served < MaxServed
  /\ backend' =
       IF backend.locations[id] = 0 THEN Respond(backend, route, 404)
       ELSE Respond(Emit([backend EXCEPT !.locations[id] = 0,
                                         !.counts[id] = 0,
                                         !.entryExit[id] = 0],
                         "location:deleted", id), route, 204)
  /\ UNCHANGED besideBackend

\* config.js lines 54-83: PUT /api/config/:key
ConfigPut(key, hasValue, value) ==
  LET route == "PUT /config/:key" IN
  /\ backend.served < MaxServed
  /\ backend' =
       IF ~hasValue THEN Respond(backend, route, 400)
       ELSE Respond(Emit([backend EXCEPT !.config[key] = value],
                         "config_updated", key), route, 200)
  /\ UNCHANGED besideBackend

\* ConfigDelete with the event emitted before the test of result.changes
ConfigDeleteEmitsFirst(key) ==
  LET route == "DELETE /config/:key"
      b == Emit(backend, "config_deleted", key) IN
  /\ backend.served < MaxServed
  /\ backend' =
       IF backend.config[key] = NoRow THEN Respond(b, route, 404)
       ELSE Respond([b EXCEPT !.config[key] = NoRow], route, 204)
  /\ UNCHANGED besideBackend

\* config.js lines 86-104: DELETE /api/config/:key
ConfigDelete(key) ==
  LET route == "DELETE /config/:key" IN
  /\ backend.served < MaxServed
  /\ backend' =
       IF backend.config[key] = NoRow THEN Respond(backend, route, 404)
       ELSE Respond(Emit([backend EXCEPT !.config[key] = NoRow],
                         "config_deleted", key), route, 204)
  /\ UNCHANGED besideBackend

(* -------------- attendance sessions and face recognition --------------- *)
\* AttendanceProvider (src/project/src/context/AttendanceContext.tsx, lines
\* 17-125) and the attendance tracking of the live-feed page of
\* src/project/src/pages/LiveFeed.tsx, for a page that stays mounted with
\* a course selected and the video ready.  A session is [id, ended,
\* records], a record the id of its student.  `attendance` holds the
\* provider's sessions, the page's activeSessionId and isAttendanceActive,
\* the set of recognizedStudentIdsRef, the render whose
\* performFaceRecognition the interval of lines 123-127 calls, the calls of
\* it that await identifyFaces, and the number of times the interval fired.
\* A render is given by what its closures read: sessions and
\* activeSessionId (0 for null).
Students == {"ada", "bob"}
Unknown == "unknown"
SessionIds == 1..MaxSessions
RecognitionSlots == 1..MaxRecognitions
NoRender == [sessions |-> <<>>, activeSessionId |-> 0, live |-> FALSE]

\* what identifyFaces can answer: a face per entry, with the student it was
\* matched to or without one
Identifications ==
  {<<>>} \cup {<<a>> : a \in Students \cup {Unknown}}
         \cup {<<a, b>> : a, b \in Students \cup {Unknown}}

IdleAttendance ==
  [sessions |-> <<>>, activeSessionId |-> 0, isAttendanceActive |-> FALSE,
   recognizedStudentIds |-> {}, interval |-> NoRender,
   calls |-> [s \in RecognitionSlots |-> NoRender], fired |-> 0]

\* findIndex(s => s.id === sessionId): session ids are positions
HasSession(sessions, sessionId) == sessionId \in DOMAIN sessions

\* findIndex(r => r.studentId === studentId) !== -1
HasRecord(session, studentId) ==
  \E i \in DOMAIN session.records : session.records[i] = studentId

\* lines 70-98: markAttendance of a render that saw the sessions `seen`,
\* applied to the provider's sessions `prev`
MarkAttendance(seen, prev, sessionId, studentId) ==
  IF ~HasSession(seen, sessionId) THEN prev
  ELSE IF HasRecord(seen[sessionId], studentId) THEN prev
  ELSE [i \in DOMAIN prev |->
          IF prev[i].id = sessionId
          THEN [prev[i] EXCEPT !.records = Append(@, studentId)]
          ELSE prev[i]]

\* LiveFeed.tsx lines 225-258: the forEach over the identification results
\* from position i on, in the render r, on the record a
RECURSIVE ForEachResult(_, _, _, _)
ForEachResult(a, r, results, i) ==
  IF i > Len(results) THEN a
  ELSE LET studentId == results[i]
       IN IF studentId = Unknown \/ studentId \in a.recognizedStudentIds
          THEN ForEachResult(a, r, results, i + 1)
          ELSE ForEachResult(
                 [a EXCEPT
                    !.sessions =
                      IF r.activeSessionId # 0
                      THEN MarkAttendance(r.sessions, @, r.activeSessionId,
                                          studentId)
                      ELSE @,
                    !.recognizedStudentIds = @ \cup {studentId}],
                 r, results, i + 1)

\* the render of the page with the provider's and the page's state of a
Render(a) ==
  [sessions |-> a.sessions, activeSessionId |-> a.activeSessionId,
   live |-> TRUE]

\* LiveFeed.tsx lines 284-297 with createSession (lines 40-54) and the
\* effect of lines 120-139: the Start button, shown while tracking is off
StartAttendanceTracking ==
  LET id == Len(attendance.sessions) + 1
      started == [attendance EXCEPT
                    !.sessions = Append(@, [id |-> id, ended |-> FALSE,
                                            records |-> <<>>]),
                    !.activeSessionId = id,
                    !.isAttendanceActive = TRUE,
                    !.recognizedStudentIds = {}]
  IN /\ ~attendance.isAttendanceActive
     /\ id \in SessionIds
     /\ attendance' = [started EXCEPT !.interval = Render(started)]
     /\ UNCHANGED besideAttendance

\* LiveFeed.tsx lines 300-308 with endSession (lines 56-68) and the effect
\* of lines 120-139: the Stop button, shown while tracking is on
StopAttendanceTracking ==
  /\ attendance.isAttendanceActive
  /\ attendance.activeSessionId # 0
  /\ attendance' =
       [attendance EXCEPT
          !.sessions = [i \in DOMAIN @ |->
                          IF @[i].id = attendance.activeSessionId
                          THEN [@[i] EXCEPT !.ended = TRUE] ELSE @[i]],
          !.isAttendanceActive = FALSE,
          !.activeSessionId = 0,
          !.interval = NoRender]
  /\ UNCHANGED besideAttendance

\* LiveFeed.tsx lines 120-139: isPaused, students or selectedCourseId
\* changed, so the effect ran again and the interval calls the
\* performFaceRecognition of the current render
IntervalRestarts ==
  /\ attendance.isAttendanceActive
  /\ attendance.interval # Render(attendance)
  /\ attendance' = [attendance EXCEPT !.interval = Render(attendance)]
  /\ UNCHANGED besideAttendance

\* LiveFeed.tsx lines 123-127, 197-214: the interval fires and
\* performFaceRecognition runs to its await, in slot s
IntervalFires(s) ==
  LET r == attendance.interval IN
  /\ r.live
  /\ attendance.fired < MaxFires
  /\ ~attendance.calls[s].live
  /\ \A t \in RecognitionSlots : t < s => attendance.calls[t].live
  /\ attendance' =
       [attendance EXCEPT
          !.fired = @ + 1,
          !.calls[s] = IF HasSession(r.sessions, r.activeSessionId)
                       THEN r ELSE @]
  /\ UNCHANGED besideAttendance

\* LiveFeed.tsx lines 210-264: identifyFaces answers the call of slot s
IdentifyResolves(s, results) ==
  LET r == attendance.calls[s] IN
  /\ r.live
  /\ attendance' =
       [ForEachResult(attendance, r, results, 1) EXCEPT
          !.calls[s] = NoRender]
  /\ UNCHANGED besideAttendance

(* ------------------ the face-recognition model loader ------------------ *)
\* loadModels of src/project/src/services/FaceRecognitionService.ts (lines
\* 49-89).  `faces` holds the service's modelLoadingPromise (0 for null),
\* the isLoaded flag of each network, the number of loadModels calls made,
\* the promise each call returned, and per promise the load that settles
\* it: its status, where its async function stands ("backend" awaiting
\* initBackend, "net" awaiting loadFromUri, "wait" awaiting the 1 s timer),
\* the network it is at, its retries variable and the loadFromUri calls it
\* made per network.
Nets == <<"ssdMobilenetv1", "faceLandmark68Net", "faceRecognitionNet">>
NetIds == DOMAIN Nets
PromiseIds == 1..MaxModelCalls

NoModelLoad ==
  [status |-> "unused", pc |-> "none", net |-> 0, retries |-> 0,
   attempts |-> [n \in NetIds |-> 0]]

IdleFaces ==
  [modelLoadingPromise |-> 0,
   isLoaded |-> [n \in NetIds |-> FALSE],
   calls |-> 0,
   returned |-> <<>>,
   loads |-> [p \in PromiseIds |-> NoModelLoad]]

\* lines 64-71: the for loop of load p from network n on, up to its next
\* await; a network that is loaded is passed without a request
RECURSIVE ForModels(_, _, _)
ForModels(f, p, n) ==
  IF n \notin NetIds
  THEN [f EXCEPT !.loads[p].status = "fulfilled", !.loads[p].pc = "none",
                 !.loads[p].net = 0]
  ELSE IF f.isLoaded[n] THEN ForModels(f, p, n + 1)
  ELSE [f EXCEPT !.loads[p].pc = "net", !.loads[p].net = n,
                 !.loads[p].retries = 3,
                 !.loads[p].attempts[n] = @ + 1]

\* lines 82-85: the catch block of load p
LoadFailed(f, p) ==
  [f EXCEPT !.modelLoadingPromise = 0,
            !.loads[p].status = "rejected", !.loads[p].pc = "none"]

\* loadModels without lines 50-52: every call starts a load.
LoadModelsUncached ==
  LET p == faces.calls + 1 IN
  /\ faces.calls < MaxModelCalls
  /\ faces' = [faces EXCEPT
                 !.calls = p,
                 !.returned = Append(@, p),
                 !.modelLoadingPromise = p,
                 !.loads[p] = [NoModelLoad EXCEPT !.status = "pending",
                                                  !.pc = "backend"]]
  /\ UNCHANGED besideFaces

\* lines 49-56, 88: a call of loadModels, up to its return
LoadModels ==
  LET p == faces.calls + 1 IN
  /\ faces.calls < MaxModelCalls
  /\ faces' =
       IF faces.modelLoadingPromise # 0
       THEN [faces EXCEPT !.calls = p,
                          !.returned = Append(@, faces.modelLoadingPromise)]
       ELSE [faces EXCEPT
               !.calls = p,
               !.returned = Append(@, p),
               !.modelLoadingPromise = p,
               !.loads[p] = [NoModelLoad EXCEPT !.status = "pending",
                                                !.pc = "backend"]]
  /\ UNCHANGED besideFaces

\* lines 56-71, 82-85: initBackend of load p settles
InitBackendSettles(p, ok) ==
  /\ faces.loads[p].pc = "backend"
  /\ faces' = IF ok THEN ForModels(faces, p, 1) ELSE LoadFailed(faces, p)
  /\ UNCHANGED besideFaces

\* lines 69-79: loadFromUri of load p settles
LoadFromUriSettles(p, ok) ==
  LET l == faces.loads[p] IN
  /\ l.pc = "net"
  /\ faces' =
       IF ok
       THEN ForModels([faces EXCEPT !.isLoaded[l.net] = TRUE], p, l.net + 1)
       ELSE IF l.retries - 1 = 0
       THEN LoadFailed([faces EXCEPT !.loads[p].retries = 0], p)
       ELSE [faces EXCEPT !.loads[p].retries = @ - 1,
                          !.loads[p].pc = "wait"]
  /\ UNCHANGED besideFaces

\* lines 78, 66-71: the timer of load p fires and the while loop goes round
RetryTimerFires(p) ==
  LET l == faces.loads[p] IN
  /\ l.pc = "wait"
  /\ faces' =
       IF faces.isLoaded[l.net] THEN ForModels(faces, p, l.net + 1)
       ELSE [faces EXCEPT !.loads[p].pc = "net",
                          !.loads[p].attempts[l.net] = @ + 1]
  /\ UNCHANGED besideFaces

(* --------------------------- the API client ---------------------------- *)
\* apiRequest of the api service (src/project/src/components/StatusBadge.tsx,
\* lines 153-203).  `api` holds the latest call: the retries it was called
\* with, the retries parameter of its current invocation, where it stands
\* ("fetching" awaiting fetch and the response text, "waiting" awaiting the
\* 1 s timer), the outcome of each fetch attempt in order, the value it
\* returned or the error it rejected with, and the number of calls made.
DefaultRetries == 2
RetryCounts == 0..MaxRetries \cup {DefaultRetries}

\* a fetch attempt: a response with a JSON body, a 204 response, a response
\* that is not ok, a body that is not JSON, or a rejected fetch
Successes == {"json", "noContent"}
Failures == {"notOk", "invalidJson", "fetchRejected"}

IdleApi ==
  [pc |-> "idle", given |-> 0, retries |-> 0, outcomes |-> <<>>,
   settled |-> <<>>, calls |-> 0]

\* lines 153-167: a call with the retries given
ApiRequest(retries) ==
  /\ api.pc \in {"idle", "returned", "rejected"}
  /\ api.calls < MaxApiCalls
  /\ api' = [pc |-> "fetching", given |-> retries, retries |-> retries,
             outcomes |-> <<>>, settled |-> <<>>, calls |-> api.calls + 1]
  /\ UNCHANGED besideApi

\* FetchSettles with line 201 only: a failed attempt rejects, whatever
\* retries is.
FetchSettlesNoRetry(outcome) ==
  LET n == Len(api.outcomes) + 1 IN
  /\ api.pc = "fetching"
  /\ api' = [api EXCEPT
               !.outcomes = Append(@, outcome),
               !.pc = IF outcome \in Successes THEN "returned"
                      ELSE "rejected",
               !.settled = <<outcome, n>>]
  /\ UNCHANGED besideApi

\* lines 161-201: the fetch of the current invocation settles; the value
\* returned or thrown is that of this attempt
FetchSettles(outcome) ==
  LET n == Len(api.outcomes) + 1 IN
  /\ api.pc = "fetching"
  /\ api' = [api EXCEPT
               !.outcomes = Append(@, outcome),
               !.pc = IF outcome \in Successes THEN "returned"
                      ELSE IF api.retries > 0 THEN "waiting"
                      ELSE "rejected",
               !.settled = IF outcome \in Successes \/ ~(api.retries > 0)
                           THEN <<outcome, n>> ELSE @]
  /\ UNCHANGED besideApi

\* lines 198-199: the timer fires and apiRequest calls itself
RetryRequest ==
  /\ api.pc = "waiting"
  /\ api' = [api EXCEPT !.pc = "fetching", !.retries = @ - 1]
  /\ UNCHANGED besideApi

(* ------------------- the lists kept in local storage -------------------- *)
\* StudentProvider (src/unnamed/part_010), CourseProvider
\* (src/unnamed/part_011) and the sessions of AttendanceProvider
\* (src/project/src/context/AttendanceContext.tsx, lines 17-68).  `lists`
\* holds, per provider, the list in memory, the string stored under the
\* provider's key of localStorage (NotStored when getItem gives null) and the
\* number of ids handed out, and for the sessions the id of currentSession
\* (0 for null), which is not stored.  A student is [id, rev, faceDescriptors], a
\* course [id, rev], a session [id, ended]; a JSON text is modelled by the
\* value it denotes, in which a Float32Array has become a plain object.
Providers == {"students", "courses", "sessions"}
NotStored == [present |-> FALSE, text |-> <<>>]
ItemIds == 1..MaxItems
Descriptors == {"none", "Float32Array"}

IdleLists ==
  [k \in Providers |->
     IF k = "sessions"
     THEN [items |-> <<>>, stored |-> NotStored, ids |-> 0,
           currentSession |-> 0]
     ELSE [items |-> <<>>, stored |-> NotStored, ids |-> 0]]

\* JSON.stringify of a list: a typed array is written as an object of its
\* indexed values
Stringify(items) ==
  [i \in DOMAIN items |->
     IF "faceDescriptors" \in DOMAIN items[i]
          /\ items[i].faceDescriptors = "Float32Array"
     THEN [items[i] EXCEPT !.faceDescriptors = "object"]
     ELSE items[i]]

\* part_010 lines 24-33: JSON.parse with the reviver of the students
ParseStudents(text) ==
  [i \in DOMAIN text |->
     IF text[i].faceDescriptors = "object"
     THEN [text[i] EXCEPT !.faceDescriptors = "Float32Array"]
     ELSE text[i]]

\* part_011 line 23, AttendanceContext.tsx line 26: JSON.parse
Parse(text) == text

\* what a provider's load effect makes of the stored string
Loaded(k, stored) ==
  IF ~stored.present THEN <<>>
  ELSE IF k = "students" THEN ParseStudents(stored.text)
  ELSE Parse(stored.text)

\* part_010 lines 42-46, part_011 lines 31-35, AttendanceContext.tsx lines
\* 34-38: the save effect that follows a change of the list to `items`
Saved(l, items) ==
  [l EXCEPT !.items = items,
            !.stored = IF Len(items) > 0
                       THEN [present |-> TRUE, text |-> Stringify(items)]
                       ELSE @]

Filter(items, id) == SelectSeq(items, LAMBDA item : item.id # id)

\* part_010 lines 48-51
AddStudent(faceDescriptors) ==
  LET l == lists["students"]
      newStudent == [id |-> l.ids + 1, rev |-> 0,
                     faceDescriptors |-> faceDescriptors] IN
  /\ l.ids < MaxItems
  /\ lists' = [lists EXCEPT !["students"] =
                 Saved([l EXCEPT !.ids = @ + 1], Append(l.items, newStudent))]
  /\ UNCHANGED besideLists

\* part_010 lines 53-59
UpdateStudent(id) ==
  LET l == lists["students"] IN
  /\ \E i \in DOMAIN l.items : l.items[i].id = id /\ l.items[i].rev = 0
  /\ lists' = [lists EXCEPT !["students"] =
                 Saved(l, [i \in DOMAIN l.items |->
                             IF l.items[i].id = id
                             THEN [l.items[i] EXCEPT !.rev = 1]
                             ELSE l.items[i]])]
  /\ UNCHANGED besideLists

\* part_010 lines 61-63
DeleteStudent(id) ==
  LET l == lists["students"] IN
  /\ \E i \in DOMAIN l.items : l.items[i].id = id
  /\ lists' = [lists EXCEPT !["students"] = Saved(l, Filter(l.items, id))]
  /\ UNCHANGED besideLists

\* part_011 lines 37-40
AddCourse ==
  LET l == lists["courses"]
      newCourse == [id |-> l.ids + 1, rev |-> 0] IN
  /\ l.ids < MaxItems
  /\ lists' = [lists EXCEPT !["courses"] =
                 Saved([l EXCEPT !.ids = @ + 1], Append(l.items, newCourse))]
  /\ UNCHANGED besideLists

\* part_011 lines 42-48
UpdateCourse(id) ==
  LET l == lists["courses"] IN
  /\ \E i \in DOMAIN l.items : l.items[i].id = id /\ l.items[i].rev = 0
  /\ lists' = [lists EXCEPT !["courses"] =
                 Saved(l, [i \in DOMAIN l.items |->
                             IF l.items[i].id = id
                             THEN [l.items[i] EXCEPT !.rev = 1]
                             ELSE l.items[i]])]
  /\ UNCHANGED besideLists

\* part_011 lines 50-52
DeleteCourse(id) ==
  LET l == lists["courses"] IN
  /\ \E i \in DOMAIN l.items : l.items[i].id = id
  /\ lists' = [lists EXCEPT !["courses"] = Saved(l, Filter(l.items, id))]
  /\ UNCHANGED besideLists

\* AttendanceContext.tsx lines 40-54
CreateSession ==
  LET l == lists["sessions"]
      newSession == [id |-> l.ids + 1, ended |-> FALSE] IN
  /\ l.ids < MaxItems
  /\ lists' = [lists EXCEPT !["sessions"] =
                 Saved([l EXCEPT !.ids = @ + 1,
                                 !.currentSession = newSession.id],
                       Append(l.items, newSession))]
  /\ UNCHANGED besideLists

\* AttendanceContext.tsx lines 56-68
EndSession(sessionId) ==
  LET l == lists["sessions"] IN
  /\ \E i \in DOMAIN l.items : l.items[i].id = sessionId /\ ~l.items[i].ended
  /\ lists' = [lists EXCEPT !["sessions"] =
                 Saved([l EXCEPT !.currentSession =
                                   IF @ = sessionId THEN 0 ELSE @],
                       [i \in DOMAIN l.items |->
                          IF l.items[i].id = sessionId
                          THEN [l.items[i] EXCEPT !.ended = TRUE]
                          ELSE l.items[i]])]
  /\ UNCHANGED besideLists

\* part_010 lines 16-46, part_011 lines 16-35, AttendanceContext.tsx lines
\* 18-38: the page is loaded again and provider k mounts: its load effect
\* reads the stored string, and its save effect follows the list it set
Reload(k) ==
  LET l == IF k = "sessions"
           THEN [lists[k] EXCEPT !.currentSession = 0] ELSE lists[k] IN
  /\ lists' = [lists EXCEPT ![k] = Saved(l, Loaded(k, l.stored))]
  /\ UNCHANGED besideLists

(* ------------------------------ behaviours ------------------------------ *)
\* The page has loaded the module (lines 23-29) in a browser profile without
\* a stored power mode; no component is rendered yet.
PageInit ==
  /\ IS_RASPBERRY_PI \in BOOLEAN
  /\ model = NoModel
  /\ modelType = DETECTION_MODEL
  /\ isModelLoading = FALSE
  /\ frameProcessingEnabled = TRUE
  /\ frameSkipCounter = 0
  /\ held = {}
  /\ mounted = FALSE
  /\ isModelReady = FALSE /\ isStreaming = FALSE /\ isLoadingStream = FALSE
  /\ error = "none" /\ isPaused = FALSE /\ lowPowerMode = TRUE
  /\ resolution = "0x0"
  /\ storedLowPower = "unset"
  /\ srcObject = 0
  /\ playPending = FALSE
  /\ open = {}
  /\ loads = [s \in LoadSlots |-> IdleLoad]
  /\ cams = [s \in CamSlots |-> IdleCam]
  /\ initTimers = 0
  /\ lpTimer = FALSE
  /\ frameScheduled = FALSE
  /\ lastProcessTime = 0
  /\ now = 0
  /\ ticks = 0
  /\ loopCap = LoopCapture(FALSE, FALSE, TRUE, FALSE)
  /\ lastTick = [rendered |-> FALSE, attempted |-> FALSE, outcome |-> "none",
                 reported |-> FALSE]
  /\ tickErrors = 0
  /\ userStopped = FALSE

\* No other component is rendered and no device list has been asked for.
Init ==
  /\ PageInit
  /\ dashboard = IdleDashboard
  /\ selection = IdleSelection
  /\ video = IdleVideo
  /\ aggregator = IdleAggregator
  /\ backend = IdleBackend
  /\ attendance = IdleAttendance
  /\ faces = IdleFaces
  /\ api = IdleApi
  /\ lists = IdleLists

Next ==
  \/ Mount
  \/ \E detached \in BOOLEAN : Unmount(detached)
  \/ \E s \in LoadSlots, ok \in BOOLEAN : LoadBackend(s, ok)
  \/ \E s \in LoadSlots, ok \in BOOLEAN : LoadPrimary(s, ok)
  \/ \E s \in LoadSlots : LoadWarm(s)
  \/ \E s \in LoadSlots, ok \in BOOLEAN : LoadEmergency(s, ok)
  \/ InitTimerFire
  \/ LpTimerFire
  \/ \E s \in CamSlots, ok \in BOOLEAN : CamEnumerate(s, ok)
  \/ \E s \in CamSlots, out \in GumOutcomes : CamGetUserMedia(s, out)
  \/ \E s \in CamSlots : CamAttach(s)
  \/ VideoPlays
  \/ UserStop
  \/ UserStart
  \/ ToggleLowPower
  \/ TogglePause
  \/ \E d \in TickDeltas, dur \in Durations : Tick(d, dur)

Spec == Init /\ [][Next]_vars

LoaderSteps ==
  \/ \E s \in LoadSlots, ok \in BOOLEAN : LoadBackend(s, ok)
  \/ \E s \in LoadSlots, ok \in BOOLEAN : LoadPrimary(s, ok)
  \/ \E s \in LoadSlots : LoadWarm(s)
  \/ \E s \in LoadSlots, ok \in BOOLEAN : LoadEmergency(s, ok)

CameraSteps ==
  \/ InitTimerFire
  \/ LpTimerFire
  \/ \E s \in CamSlots, ok \in BOOLEAN : CamEnumerate(s, ok)
  \/ \E s \in CamSlots, out \in GumOutcomes : CamGetUserMedia(s, out)
  \/ \E s \in CamSlots : CamAttach(s)
  \/ VideoPlays

\* no call of the page is in flight and no timer or media event is pending
Settled ==
  /\ \A s \in LoadSlots : loads[s].pc = "idle"
  /\ \A s \in CamSlots : cams[s].pc = "idle"
  /\ initTimers = 0
  /\ ~lpTimer
  /\ ~playPending

\* a user who presses a button only once the page has settled
PatientUser ==
  \/ (Settled /\ UserStop)
  \/ (Settled /\ UserStart)
  \/ (Settled /\ ToggleLowPower)
  \/ (Settled /\ TogglePause)

\* The loader alone: the page is mounted, removed and switched between
\* power modes at any moment; no camera is started.
NextLoader ==
  \/ Mount
  \/ \E detached \in BOOLEAN : Unmount(detached)
  \/ ToggleLowPower
  \/ LoaderSteps
SpecLoader == Init /\ [][NextLoader]_vars

\* Loader and camera: the page is removed at any moment, the buttons are
\* pressed by the patient user, no animation frame is delivered.
NextCamera ==
  \/ Mount
  \/ \E detached \in BOOLEAN : Unmount(detached)
  \/ LoaderSteps
  \/ CameraSteps
  \/ PatientUser
SpecCamera == Init /\ [][NextCamera]_vars

\* Loader and camera of a page that is mounted once and stays.
NextStay == Mount \/ LoaderSteps \/ CameraSteps \/ PatientUser
SpecStay == Init /\ [][NextStay]_vars

\* Loader, camera and frame loop: animation frames are delivered at any
\* moment; the page is removed and the buttons are pressed once it settled.
NextLoop ==
  \/ Mount
  \/ (Settled /\ \E detached \in BOOLEAN : Unmount(detached))
  \/ LoaderSteps
  \/ CameraSteps
  \/ PatientUser
  \/ \E d \in TickDeltas, dur \in Durations : Tick(d, dur)
SpecLoop == Init /\ [][NextLoop]_vars

\* The dashboard's live view on its own: rendering and removal, the
\* restarts of its mount effect, the start button and the steps of its
\* startStream calls.
NextDash ==
  \/ DashMount
  \/ \E detached \in BOOLEAN : DashUnmount(detached)
  \/ DashDepsChange
  \/ DashButton
  \/ \E s \in DashSlots : DashDevices(s)
  \/ \E s \in DashSlots : DashGumResolves(s)
  \/ \E s \in DashSlots : DashGumRejects(s)
  \/ \E s \in DashSlots : DashTimeout(s)
  \/ \E s \in DashSlots : DashCatchDone(s)
  \/ \E r \in Requests, granted \in BOOLEAN : DashLateSettle(r, granted)
SpecDash == Init /\ [][NextDash]_vars

\* Device selection on its own: enumerateDevices has answered with any list
\* of up to MaxDevices devices.
InitSelect ==
  /\ PageInit
  /\ dashboard = IdleDashboard
  /\ \E devs \in DeviceLists :
       selection = [devices |-> devs, pc |-> "enumerated", deviceId |-> 0]
  /\ video = IdleVideo
  /\ aggregator = IdleAggregator
  /\ backend = IdleBackend
  /\ attendance = IdleAttendance
  /\ faces = IdleFaces
  /\ api = IdleApi
  /\ lists = IdleLists
NextSelect == SelectAndRequest
SpecSelect == InitSelect /\ [][NextSelect]_vars

\* stopStream on its own: any video element, then calls of stopStream.
InitStop ==
  /\ PageInit
  /\ dashboard = IdleDashboard
  /\ selection = IdleSelection
  /\ \E v \in VideoStates :
       video = [first |-> v, before |-> v, el |-> v, calls |-> 0]
  /\ aggregator = IdleAggregator
  /\ backend = IdleBackend
  /\ attendance = IdleAttendance
  /\ faces = IdleFaces
  /\ api = IdleApi
  /\ lists = IdleLists
NextStop == StopStreamCall
SpecStop == InitStop /\ [][NextStop]_vars

\* The aggregator on its own: the active location has any of the
\* capacities, counts are reported, the backend answers and the socket
\* connects, delivers and disconnects.
InitAggregator ==
  /\ PageInit
  /\ dashboard = IdleDashboard
  /\ selection = IdleSelection
  /\ video = IdleVideo
  /\ \E c \in Capacities :
       aggregator = [IdleAggregator EXCEPT !.capacity = c]
  /\ backend = IdleBackend
  /\ attendance = IdleAttendance
  /\ faces = IdleFaces
  /\ api = IdleApi
  /\ lists = IdleLists
NextAggregator ==
  \/ \E n \in Counts : SetCount(n)
  \/ \E ok \in BOOLEAN : PostEntryExit(ok)
  \/ \E ok \in BOOLEAN : PostCount(ok)
  \/ EntryExitRecorded
  \/ SocketConnect
  \/ SocketDisconnect
  \/ ReloadOffline
SpecAggregator == InitAggregator /\ [][NextAggregator]_vars

\* The backend on its own: any MaxServed requests to its mutating routes.
NextBackend ==
  \/ \E id \in LocationIds, c, s \in BOOLEAN : CountsPost(id, c, s)
  \/ \E id \in LocationIds, type \in {"", "entry", "exit", "other"},
        o \in BOOLEAN : EntryExitPost(id, type, o)
  \/ \E id \in LocationIds, n \in BOOLEAN, c \in {0, 10} :
        LocationsPost(id, n, c)
  \/ \E id \in LocationIds, c \in {0, 10} : LocationsPut(id, c)
  \/ \E id \in LocationIds : LocationsDelete(id)
  \/ \E key \in ConfigKeys, h \in BOOLEAN, v \in ConfigValues :
        ConfigPut(key, h, v)
  \/ \E key \in ConfigKeys : ConfigDelete(key)
SpecBackend == Init /\ [][NextBackend]_vars

\* Attendance tracking on its own: the two buttons, the interval and the
\* answers of identifyFaces.
NextAttendance ==
  \/ StartAttendanceTracking
  \/ StopAttendanceTracking
  \/ IntervalRestarts
  \/ \E s \in RecognitionSlots : IntervalFires(s)
  \/ \E s \in RecognitionSlots, results \in Identifications :
        IdentifyResolves(s, results)
SpecAttendance == Init /\ [][NextAttendance]_vars

\* The face-recognition loader on its own: calls of loadModels at any
\* moment, and the backend, the network requests and the timers settling.
NextFaces ==
  \/ LoadModels
  \/ \E p \in PromiseIds, ok \in BOOLEAN : InitBackendSettles(p, ok)
  \/ \E p \in PromiseIds, ok \in BOOLEAN : LoadFromUriSettles(p, ok)
  \/ \E p \in PromiseIds : RetryTimerFires(p)
SpecFaces == Init /\ [][NextFaces]_vars

\* The API client on its own: calls one after the other with any retries,
\* every fetch settles and every timer fires.
NextApi ==
  \/ \E retries \in RetryCounts : ApiRequest(retries)
  \/ \E outcome \in Successes \cup Failures : FetchSettles(outcome)
  \/ RetryRequest
SpecApi ==
  /\ Init /\ [][NextApi]_vars
  /\ WF_vars(\E outcome \in Successes \cup Failures : FetchSettles(outcome))
  /\ WF_vars(RetryRequest)

\* The three providers on their own: any additions, updates and deletions,
\* and reloads of the page.
NextLists ==
  \/ \E d \in Descriptors : AddStudent(d)
  \/ \E id \in ItemIds : UpdateStudent(id)
  \/ \E id \in ItemIds : DeleteStudent(id)
  \/ AddCourse
  \/ \E id \in ItemIds : UpdateCourse(id)
  \/ \E id \in ItemIds : DeleteCourse(id)
  \/ CreateSession
  \/ \E id \in ItemIds : EndSession(id)
  \/ \E k \in Providers : Reload(k)
SpecLists == Init /\ [][NextLists]_vars

(* ------------------------- claims on the loader ------------------------- *)
\* C4: model loading is single-flight: at no moment are two model fetches
\* awaited, whatever the interleaving of load calls with resetModuleState
\* and remounting.
C4_SingleFlight == Cardinality({s \in LoadSlots : Fetching(loads[s])}) <= 1

\* C5: the loader never holds two capabilities at once: a capability is
\* released before another one is installed.
C5_OneCapabilityHeld == Cardinality(held) <= 1

\* C8: within one load call every model variant is attempted at most once.
C8_AttemptedOnce ==
  \A s \in LoadSlots :
    \A i, j \in 1..Len(loads[s].attempts) :
      loads[s].attempts[i] = loads[s].attempts[j] => i = j

\* C9 (as amended): when the emergency fetch fails too, the call returns
\* with the loading flag cleared, without marking the model ready or
\* installing a capability, and a model-load error is reported if and only
\* if the component that made the call is still mounted.
C9_AllVariantsFail ==
  [][\A s \in LoadSlots :
       (loads[s].pc = "emergency" /\ loads'[s].pc = "idle" /\ held' = held) =>
         /\ ~isModelLoading'
         /\ isModelReady' = isModelReady
         /\ model' = model
         /\ error' = IF loads[s].live THEN "ModelLoadFailed" ELSE error]_vars

\* C9 witness: a mounted component whose load failed in every variant: the
\* error is shown, the model is not ready, no load is in flight and the
\* loading flag is clear.
C9_Witness ==
  /\ mounted
  /\ error = "ModelLoadFailed"
  /\ ~isModelReady
  /\ ~isModelLoading
  /\ \A s \in LoadSlots : loads[s].pc = "idle"

\* C9 as stated: whenever the emergency fetch fails, a model-load error is
\* reported, the model is not ready and the loading flag is cleared.
C9_ErrorAlwaysReported ==
  [][\A s \in LoadSlots :
       (loads[s].pc = "emergency" /\ loads'[s].pc = "idle" /\ held' = held) =>
         /\ ~isModelLoading'
         /\ ~isModelReady'
         /\ error' = "ModelLoadFailed"]_vars

\* C10 (as amended): the variants a load call has attempted are, in order,
\* on the constrained tier the 128-pixel face detector and then the default
\* face detector as emergency fallback; on the standard tier the default
\* face detector and then the default face detector again as emergency
\* fallback.  No object detector is attempted.
C10_TierAttempts ==
  \A s \in LoadSlots :
    LET a == loads[s].attempts
        first == IF IS_RASPBERRY_PI THEN "blazeface_128" ELSE "blazeface_default"
    IN /\ Len(a) <= 2
       /\ Len(a) >= 1 => a[1] = first
       /\ Len(a) = 2 => a[2] = "blazeface_default"

\* C10 witness: a load call on the standard tier that is at its emergency
\* fetch after its first variant failed.
C10_Witness ==
  /\ ~IS_RASPBERRY_PI
  /\ \E s \in LoadSlots :
       loads[s].pc = "emergency" /\ Len(loads[s].attempts) = 2

\* C10 as stated: the constrained tier attempts the 128-pixel face detector
\* only; the standard tier starts with an object detector.
C10_TierPolicyAsStated ==
  \A s \in LoadSlots :
    LET a == loads[s].attempts IN
    /\ IS_RASPBERRY_PI => \A i \in 1..Len(a) : a[i] = "blazeface_128"
    /\ (~IS_RASPBERRY_PI /\ loads[s].pc = "primary") =>
          a[1] \in {"cocossd_lite", "cocossd_mobilenet_v2", "cocossd_default"}

(* ------------------------- claims on the camera ------------------------- *)
\* C1: at most one camera stream is open at any time, and every stream
\* that getUserMedia returned is attached to the video element, is about to
\* be attached by the call that requested it, or has its tracks stopped.
C1_OneStreamOpen ==
  /\ Cardinality(open) <= 1
  /\ \A n \in open :
       \/ n = srcObject
       \/ \E s \in CamSlots : cams[s].pc = "apply" /\ cams[s].stream = n

\* C6: once the component is torn down no frame is scheduled, no stream is
\* attached, the gate is clear, and no stream is open except one whose
\* acquisition is still completing.
C6_CleanTeardown ==
  ~mounted =>
    /\ ~frameScheduled
    /\ srcObject = 0
    /\ frameProcessingEnabled
    /\ \A n \in open :
         \E s \in CamSlots : cams[s].pc = "apply" /\ cams[s].stream = n

(* ------------------------ claims on the frame loop ---------------------- *)
\* C3: after every tick that attempts a detection, whether processVideoFrame
\* raised an error or not, the gate is clear again and the next frame is
\* scheduled.
C3_GateCleared ==
  [][(ticks' = ticks + 1 /\ lastTick'.attempted) =>
       (frameProcessingEnabled' /\ frameScheduled')]_vars

\* C3 witness: two ticks had their detection raise an error, the latest of
\* them rendered, the gate is clear and the loop is scheduled.
C3_Witness ==
  /\ tickErrors = 2
  /\ lastTick.outcome = "error"
  /\ lastTick.rendered
  /\ frameProcessingEnabled
  /\ frameScheduled

C11_DowngradeLowersRate ==
  (IS_RASPBERRY_PI /\ mounted /\ isStreaming /\ ~lowPowerMode) =>
    /\ frameScheduled
    /\ \/ MAX_FPS(TRUE) < MAX_FPS(FALSE)
       \/ DETECTION_INTERVAL(TRUE) > DETECTION_INTERVAL(FALSE)

\* C12 (as amended): for every power mode on either side, the frame-rate
\* ceiling the loop effect chooses on a constrained-tier device is at most
\* the one chosen on the standard tier, and its detection interval is at
\* least the one chosen on the standard tier.
C12_TierRates ==
  (IS_RASPBERRY_PI /\ mounted) =>
    \A lpc, lps \in BOOLEAN :
      /\ MAX_FPS(lpc) <= MaxFpsOf(FALSE, lps)
      /\ DETECTION_INTERVAL(lpc) >= DetectionIntervalOf(FALSE, lps)

\* C12 witness: the loop effect has chosen its rates on a constrained-tier
\* device whose component streams in the high-performance mode.
C12_Witness ==
  /\ IS_RASPBERRY_PI
  /\ mounted
  /\ isStreaming
  /\ ~loopCap.lowPowerMode
  /\ loopCap.isStreaming

\* C12 as stated: frame-rate ceiling and detection interval of the
\* constrained tier are both at most those of the standard tier.
C12_BothAtMost ==
  (IS_RASPBERRY_PI /\ mounted) =>
    \A lpc, lps \in BOOLEAN :
      /\ MAX_FPS(lpc) <= MaxFpsOf(FALSE, lps)
      /\ DETECTION_INTERVAL(lpc) <= DetectionIntervalOf(FALSE, lps)

(* ---------------------- claims on camera acquisition -------------------- *)
\* C13: every startCamera call that fails at enumerateDevices or at
\* getUserMedia ends with a classified error reported, the loading flag
\* cleared and no stream attached to the video element.
C13_FailureReported ==
  [][\A s \in CamSlots :
       (cams[s].pc \in {"enum", "gum"} /\ cams'[s].pc = "idle") =>
         /\ error' \in {"CameraBusy", "PermissionDenied", "Generic"}
         /\ ~isLoadingStream'
         /\ srcObject' = 0]_vars

\* C14: camera acquisition is bounded: when getUserMedia has not settled
\* after 10 s the acquisition ends as a reported failure, and a stream that
\* the browser delivers after the timeout is not left open.
C14_LateStreamClosed ==
  \A r \in Requests :
    dashboard.requests[r] = "late" => r \notin dashboard.open

(* --------------------- claims on device selection ---------------------- *)
\* the labels above that name a built-in camera
BuiltInLabels == {"FaceTime HD Camera (Built-in)", "Internal Webcam"}
\* the smallest position of a non-empty set of positions
FirstOf(S) == CHOOSE i \in S : \A j \in S : i <= j

\* C15 (as amended): device selection prefers an external camera: when the
\* list has a video input whose label is not empty and names no built-in
\* camera, the first such device is selected; otherwise, when the list has a
\* video input at all, the first video input is selected.
C15_PrefersExternal ==
  LET devs == selection.devices
      Vid == {i \in DOMAIN devs : devs[i].kind = "videoinput"}
      Ext == {i \in Vid : devs[i].label \notin BuiltInLabels \cup {""}}
  IN selection.pc = "requested" =>
       /\ Ext # {} => selection.deviceId = FirstOf(Ext)
       /\ (Ext = {} /\ Vid # {}) => selection.deviceId = FirstOf(Vid)

\* C15, witness: a built-in camera is listed before an external one and the
\* external one is selected.
C15_Witness ==
  /\ selection.pc = "requested"
  /\ \E i, j \in DOMAIN selection.devices :
       /\ i < j
       /\ selection.devices[i] =
            [kind |-> "videoinput", label |-> "FaceTime HD Camera (Built-in)"]
       /\ selection.devices[j] =
            [kind |-> "videoinput", label |-> "Logitech C920"]
       /\ selection.deviceId = j

\* C15 (as stated): the first device whose label does not contain
\* "built-in", "internal" or "facetime" is selected, and the first device
\* when there is none.
C15_FirstNotBuiltIn ==
  LET devs == selection.devices
      Vid == {i \in DOMAIN devs : devs[i].kind = "videoinput"}
      Ext == {i \in Vid : devs[i].label \notin BuiltInLabels}
  IN selection.pc = "requested" =>
       /\ Ext # {} => selection.deviceId = FirstOf(Ext)
       /\ (Ext = {} /\ Vid # {}) => selection.deviceId = FirstOf(Vid)

\* C16: with no video input in the list, device selection fails and no
\* media stream is requested.
C16_NoCameraNoRequest ==
  (\A i \in DOMAIN selection.devices :
      selection.devices[i].kind # "videoinput") =>
    selection.pc # "requested"

(* ------------------------- claims on stopStream ------------------------- *)
\* C17: releasing the stream is idempotent: a call of stopStream stops the
\* tracks of the attached stream and detaches it, and a second call, or a
\* call that finds no stream attached, changes nothing.
C17_StopStreamIdempotent ==
  /\ (video.calls >= 1 /\ video.first.attached) =>
       /\ video.el.srcObject = 0
       /\ video.first.srcObject \notin video.el.live
  /\ (video.calls >= 1 /\ (~video.before.attached \/ video.before.srcObject = 0))
       => video.el = video.before
  /\ video.calls >= 2 => video.el = video.before

\* C17, witness: a playing stream was released and stopStream called again.
C17_Witness ==
  /\ video.calls = 2
  /\ video.first.attached /\ video.first.isMounted /\ video.first.isStreaming
  /\ video.first.srcObject \in video.first.live
  /\ ~video.el.isStreaming
  /\ video.el.live = video.first.live \ {video.first.srcObject}

(* --------------------- claims on errors in a tick ---------------------- *)
\* C18: an error raised by the detection of a tick is contained: the tick
\* reports no count, the error does not leave processVideoFrame (the tick
\* runs to its end and records the time of the attempt, and no error is
\* shown), and the next frame stays scheduled.
C18_ErrorContained ==
  [][(ticks' = ticks + 1 /\ lastTick'.outcome = "error") =>
       /\ ~lastTick'.reported
       /\ lastProcessTime' = now'
       /\ error' = error
       /\ frameScheduled']_vars

\* C18, witness: a tick followed a tick whose detection had raised an error,
\* and its own detection raised an error too.
C18_Witness ==
  /\ ticks >= 2
  /\ tickErrors = 2
  /\ lastTick.outcome = "error"
  /\ lastProcessTime = now
  /\ error = "none"
  /\ frameScheduled

(* ------------------------ claims on the aggregator ---------------------- *)
\* C19: once count 0 and then count 5 have been reported and every answer
\* and socket event has arrived, the aggregator's count is 5 and its
\* entry/exit data hold exactly one entry event, of magnitude 5, and no
\* exit event, online as well as offline.
C19_OneEntryOfFive ==
  LET data == aggregator.entryExitData
      Entries == {i \in DOMAIN data : data[i].type = "entry"}
  IN (/\ aggregator.reports = <<0, 5>>
      /\ aggregator.call.pc = "idle"
      /\ aggregator.emitted = <<>>) =>
       /\ aggregator.count = 5
       /\ Cardinality(Entries) = 1
       /\ \A i \in DOMAIN data : data[i].type = "entry" /\ data[i].count = 5

\* C20: the status logged for a reported count n > 0 and the capacity c of
\* the active location is over-capacity (error) when n > c, near-capacity
\* (warning) when n is above 90% of c but not above c, and normal otherwise.
C20_StatusFromCapacity ==
  LET n == aggregator.newLog.count
      c == aggregator.capacity
      s == aggregator.newLog.status
  IN (aggregator.newLog # NoLog /\ n > 0) =>
       /\ n > c => s = [status |-> "error", message |-> "Over capacity"]
       /\ (n <= c /\ 10 * n > 9 * c) =>
            s = [status |-> "warning", message |-> "Near capacity"]
       /\ 10 * n <= 9 * c =>
            s = [status |-> "active", message |-> "Normal operation"]

\* C21: every reported count appends one log entry to the aggregator's logs,
\* carrying the count and the status derived from it, and the logs contain
\* only such entries.
C21_LogsHoldEntries ==
  LET logs == aggregator.logs
  IN (aggregator.call.pc = "idle" /\ aggregator.reports # <<>>) =>
       \A i \in DOMAIN logs :
         /\ logs[i].kind = "entry"
         /\ logs[i].status = GetStatus(logs[i].count, aggregator.capacity)

\* C22: a reported count is never lost: a log entry written to local
\* storage for a count reported offline, or whose network call failed, is
\* still in local storage after every later step, so that a reload restores
\* it.
C22_StoredLogsKept ==
  [][\A i \in DOMAIN aggregator.storedLogs :
       aggregator.storedLogs[i].kind = "entry" =>
         \E j \in DOMAIN aggregator'.storedLogs :
           aggregator'.storedLogs[j] = aggregator.storedLogs[i]]_vars

(* ------------------------- claims on the backend ------------------------ *)
\* what the latest request changed, when the step serves one
Served == backend'.served = backend.served + 1
Succeeded == backend'.last.status \in {200, 201, 204}
Rejected == backend'.last.status \in {400, 404}
Rows(b) == <<b.locations, b.counts, b.entryExit, b.config>>
NewEvents == SubSeq(backend'.emitted, Len(backend.emitted) + 1,
                    Len(backend'.emitted))
EventOfRoute ==
  [r \in {"POST /counts/:locationId", "POST /counts/:locationId/entry-exit",
          "POST /locations", "PUT /locations/:id", "DELETE /locations/:id",
          "PUT /config/:key", "DELETE /config/:key"} |->
     CASE r = "POST /counts/:locationId" -> "count_updated"
       [] r = "POST /counts/:locationId/entry-exit" -> "entry_exit_recorded"
       [] r = "POST /locations" -> "location:created"
       [] r = "PUT /locations/:id" -> "location:updated"
       [] r = "DELETE /locations/:id" -> "location:deleted"
       [] r = "PUT /config/:key" -> "config_updated"
       [] r = "DELETE /config/:key" -> "config_deleted"]
ListedEvents ==
  {"count_updated", "entry_exit_recorded", "location:created",
   "location:updated", "location:deleted", "config_updated"}

\* C23 (amended): every successful mutating request broadcasts exactly one
\* event, the one of its route (count_updated, entry_exit_recorded,
\* location:created, location:updated, location:deleted, config_updated,
\* and config_deleted for the deletion of a configuration key), the events
\* broadcast before it are kept, and a request rejected with 400 or 404
\* changes no stored row and broadcasts no event.
C23_OneMatchingEvent ==
  [][Served =>
       /\ SubSeq(backend'.emitted, 1, Len(backend.emitted)) = backend.emitted
       /\ Succeeded =>
            /\ Len(NewEvents) = 1
            /\ NewEvents[1].name = EventOfRoute[backend'.last.route]
       /\ Rejected =>
            /\ NewEvents = <<>>
            /\ Rows(backend') = Rows(backend)]_vars

\* C23, witness: three requests were served, the last one was rejected with
\* 404 and the two before it succeeded, one of them the deletion of a
\* configuration key.
C23_Witness ==
  /\ backend.served = 3
  /\ backend.last.status = 404
  /\ Len(backend.emitted) = 2
  /\ backend.emitted[2].name = "config_deleted"

\* C23 as stated: every successful mutating request broadcasts exactly one
\* event and it is one of count_updated, entry_exit_recorded,
\* location:created, location:updated, location:deleted, config_updated; a
\* request rejected with 400 or 404 changes no row and broadcasts nothing.
C23_OneListedEvent ==
  [][Served =>
       /\ Succeeded =>
            /\ Len(NewEvents) = 1
            /\ NewEvents[1].name \in ListedEvents
       /\ Rejected =>
            /\ NewEvents = <<>>
            /\ Rows(backend') = Rows(backend)]_vars

(* ---------------------- claims on the frame rate ------------------------ *)
\* C24: the frame-rate ceiling holds: when a tick does rendering work and
\* the tick before it did rendering work too, at least 1000 / MAX_FPS
\* milliseconds lie between the two.
C24_FrameRateCeiling ==
  [][(ticks' = ticks + 1 /\ lastTick.rendered /\ lastTick'.rendered)
       => (now' - now) * MAX_FPS(loopCap.lowPowerMode) >= 1000]_vars

\* C25: a detection that the loop invokes while the camera is streaming,
\* the capability is loaded, the feed is not paused and the gate is clear
\* reports its result, the number of detected subjects, to the count
\* aggregator.
C25_DetectionReported ==
  (lastTick.attempted /\ lastTick.outcome \notin {"returned", "skipped"})
    => lastTick.reported

(* ---------------------- claims on the stop button ----------------------- *)
\* C26: after the user stopped the camera while it was streaming, and until
\* the user starts it again or changes the power mode, the streaming flag
\* is false and the video element has no stream.
C26_StaysReleased == userStopped => (~isStreaming /\ srcObject = 0)

(* ------------------------ claims on attendance -------------------------- *)
\* the records of a student in a session
RecordsOf(session, studentId) ==
  {i \in DOMAIN session.records : session.records[i] = studentId}

\* C27: within one attendance session every student has at most one
\* attendance record, however often the student is recognised.
C27_OneRecordPerStudent ==
  \A i \in DOMAIN attendance.sessions : \A studentId \in Students :
    Cardinality(RecordsOf(attendance.sessions[i], studentId)) <= 1

(* ------------- claims on the face-recognition model loader ------------- *)
PendingLoads == {p \in PromiseIds : faces.loads[p].status = "pending"}

\* C28: loading the face-recognition models is single-flight with retry:
\* at most one load is in flight, it is the cached promise and every call
\* made while it is in flight returned it; a load requests each network at
\* most 3 times; a failed load is not the cached promise, and the first
\* call after it starts a fresh load; once a load has succeeded it stays
\* the cached promise and no later load was started.
C28_SingleFlightWithRetry ==
  /\ Cardinality(PendingLoads) <= 1
  /\ \A p \in PendingLoads :
       /\ faces.modelLoadingPromise = p
       /\ \A c \in DOMAIN faces.returned : c >= p => faces.returned[c] = p
  /\ \A p \in PromiseIds : \A n \in NetIds : faces.loads[p].attempts[n] <= 3
  /\ \A p \in PromiseIds :
       faces.loads[p].status = "rejected" =>
         /\ faces.modelLoadingPromise # p
         /\ \A c \in DOMAIN faces.returned :
              (c > p /\ \A d \in DOMAIN faces.returned :
                          (p < d /\ d < c) => faces.returned[d] = p)
                => faces.returned[c] \in {p, c}
  /\ \A p \in PromiseIds :
       faces.loads[p].status = "fulfilled" =>
         /\ faces.modelLoadingPromise = p
         /\ \A q \in PromiseIds : q > p => faces.loads[q].status = "unused"
         /\ \A c \in DOMAIN faces.returned : c >= p => faces.returned[c] = p

\* C28, witness: a load failed after three requests for a network, a later
\* call started a fresh load, that load succeeded and a call after it
\* returned the loaded promise.
C28_Witness ==
  /\ faces.loads[1].status = "rejected"
  /\ \E n \in NetIds : faces.loads[1].attempts[n] = 3
  /\ faces.loads[2].status = "fulfilled"
  /\ faces.returned = <<1, 2, 2>>

(* ------------------------ claims on the API client ---------------------- *)
ApiAttempts == Len(api.outcomes)

C30_StorageMirrorsMemory ==
  \A k \in Providers : Loaded(k, lists[k].stored) = lists[k].items

====
